---- MODULE Spec2Model ----
(***************************************************************************)
(* Model of eljef.docker: the container registry (DockerContainers), the   *)
(* group registry (DockerGroups), the per-container runtime handle         *)
(* (DockerContainer) and the group orchestration of the command line       *)
(* (cli/__group__.py), running against an external container engine.       *)
(***************************************************************************)
EXTENDS Integers, Sequences, FiniteSets, TLC

(***************************************************************************)
(* Bounds of the model.                                                    *)
(***************************************************************************)
\* Containers known to the engine runs, container names a definition file
\* can carry in the registry runs, and group names.
NumNames == 3
NumDefNames == 2
NumGroups == 1
\* The longest mount entry, in characters.
MaxMountLen == 5

NameList == <<"m", "a", "b", "c", "d">>
GroupList == <<"g1", "g2", "g3", "g4">>

Names == {NameList[i] : i \in 1..NumNames}
DefNames == {NameList[i] : i \in 1..NumDefNames}
Groups == {GroupList[i] : i \in 1..NumGroups}

\* The image every modelled definition asks for.
ImageName == "img"

\* Python's None; a value that is not a string (an int) where a string is
\* declared; a list element that is not a string; a string where a list is
\* declared.
NoneV == "<None>"
IntV == "<int>"
IntElem == <<"<int>">>
StrForList == <<<<"<str>">>>>

VARIABLES
    diskC,      \* containers/<name>.yaml : name -> persisted record
    diskG,      \* groups.yaml : group name -> [master, members]
    index,      \* DockerContainers.__containers (name -> path), as its key set
    memG,       \* DockerGroups.__groups : group name -> DockerGroup
    last,       \* the last operation: [op, arg, err, msg, pre]
    writes,     \* the files the last operation wrote, in order
    engine,     \* the engine: [inst : name -> state, images : set of images]
    pc,         \* "idle", "group", "handle", "done", "failed"
    mh,         \* the master handle of the running group operation (or NoHandle)
    hs,         \* the handles: the members of a group operation, or one handle
    plan,       \* the handle calls a group operation still has to make
    ip,         \* index in plan of the next call
    calls,      \* engine calls issued by the current operation, in order
    trace,      \* handle methods invoked by the current operation, in order
    rec,        \* <<r>>: the record r this process last got from validation
                \* (by validate, define or a new handle); <<>>: none
    procs       \* the processes that race on the files: process -> its
                \* registries and where it stands in define

regVars == <<diskC, diskG, index, memG>>
engVars == <<engine, pc, mh, hs, plan, ip, calls, trace>>
vars == <<diskC, diskG, index, memG, last, writes,
          engine, pc, mh, hs, plan, ip, calls, trace, rec, procs>>

(***************************************************************************)
(* Helpers on sequences.                                                   *)
(***************************************************************************)
Range(s) == {s[i] : i \in 1..Len(s)}

InSeq(x, s) == \E i \in 1..Len(s) : s[i] = x

NoDup(s) == \A i, j \in 1..Len(s) : s[i] = s[j] => i = j

Count(x, s) == Cardinality({i \in 1..Len(s) : s[i] = x})

IsPrefix(s, t) == Len(s) <= Len(t) /\ \A i \in 1..Len(s) : s[i] = t[i]

RECURSIVE SelectSeqBy(_, _)
\* The subsequence of s of the elements that belong to the set keep.
SelectSeqBy(s, keep) ==
    IF s = <<>> THEN <<>>
    ELSE IF Head(s) \in keep THEN <<Head(s)>> \o SelectSeqBy(Tail(s), keep)
                             ELSE SelectSeqBy(Tail(s), keep)

\* Python truthiness of a string-or-None value.
Falsy(v) == v \in {"", NoneV}

(***************************************************************************)
(* Option validation (containers.py).                                      *)
(*                                                                         *)
(* A raw mapping is a function from the keys it has to their values.  A    *)
(* string field holds a string, None (NoneV) or a value of another type    *)
(* (IntV); a list field holds a sequence whose elements are strings, each  *)
(* a sequence of characters, or a value of another type (IntElem), or      *)
(* holds a string where the list should be (StrForList).                   *)
(***************************************************************************)
\* ContainerOpts.__init__: the defaults of the modelled fields (the fields
\* left out are declared with the same three types and take the same path).
ContainerOptsDefault ==
    [group |-> "", image |-> "", image_insecure |-> FALSE, mounts |-> <<>>,
     name |-> "", net |-> "", network |-> "", tag |-> ""]

\* validated.keys(): the modelled fields in the order __init__ sets them.
KeyOrder ==
    <<"group", "image", "image_insecure", "mounts", "name", "net", "network",
      "tag">>

\* type(o_value).__name__ of each field's default.
DeclaredType(key) ==
    CASE key \in {"group", "image", "name", "net", "network", "tag"} -> "str"
      [] key \in {"mounts"} -> "list"
      [] key \in {"image_insecure"} -> "bool"

\* type(value).__name__ of a value given for key.
TypeName(key, value) ==
    CASE DeclaredType(key) = "str" ->
             IF value = NoneV THEN "NoneType"
             ELSE IF value = IntV THEN "int" ELSE "str"
      [] DeclaredType(key) = "list" ->
             IF value = StrForList THEN "str" ELSE "list"
      [] DeclaredType(key) = "bool" -> "bool"

\* ContainerOpts.set_with_type, the checks: the value must have the type of
\* the field's default, and every element of a list must be a string.
type_error(key, value) ==
    IF TypeName(key, value) # DeclaredType(key) THEN "type"
    ELSE IF DeclaredType(key) = "list"
            /\ \E i \in 1..Len(value) : value[i] = IntElem THEN "list"
    ELSE "none"

\* Variant of set_with_type that stores the value as it was given.
set_with_type_asGiven(key, value) == value

\* ContainerOpts.set_with_type, last line: '' is stored as None.
set_with_type(key, value) ==
    IF DeclaredType(key) = "str" /\ value = "" THEN NoneV ELSE value

\* The record validate_container_options fills: a key that is present in the
\* raw mapping goes through set_with_type, an absent key keeps its default.
ValidatedOpts(options) ==
    [k \in DOMAIN ContainerOptsDefault |->
        IF k \in DOMAIN options THEN set_with_type(k, options[k])
                                ELSE ContainerOptsDefault[k]]

\* Variant of validate_container_options that does not require a name.
validate_noNameCheck(options) ==
    LET validated == ValidatedOpts(options)
        bad(k) == /\ k \in DOMAIN ContainerOptsDefault
                  /\ type_error(k, options[k]) # "none"
    IN  IF \E k \in DOMAIN options : bad(k)
          THEN LET i   == CHOOSE i \in 1..Len(KeyOrder) :
                              /\ KeyOrder[i] \in DOMAIN options
                              /\ bad(KeyOrder[i])
                              /\ \A j \in 1..(i - 1) :
                                     KeyOrder[j] \in DOMAIN options
                                       => ~bad(KeyOrder[j])
                   key == KeyOrder[i]
               IN  [err |-> "ConfigError", msg |-> type_error(key, options[key]),
                    key |-> key, opts |-> validated]
        ELSE IF Falsy(validated.image)
          THEN [err |-> "ConfigError", msg |-> "image", key |-> "image",
                opts |-> validated]
        ELSE [err |-> "none", msg |-> "", key |-> "", opts |-> validated]

\* validate_container_options: [err, msg, key, opts].  The keys are set in
\* order and the first value of a wrong type raises; then image and name
\* must be truthy.
validate_container_options(options) ==
    LET validated == ValidatedOpts(options)
        bad(k) == /\ k \in DOMAIN ContainerOptsDefault
                  /\ type_error(k, options[k]) # "none"
    IN  IF \E k \in DOMAIN options : bad(k)
          THEN LET i   == CHOOSE i \in 1..Len(KeyOrder) :
                              /\ KeyOrder[i] \in DOMAIN options
                              /\ bad(KeyOrder[i])
                              /\ \A j \in 1..(i - 1) :
                                     KeyOrder[j] \in DOMAIN options
                                       => ~bad(KeyOrder[j])
                   key == KeyOrder[i]
               IN  [err |-> "ConfigError", msg |-> type_error(key, options[key]),
                    key |-> key, opts |-> validated]
        ELSE IF Falsy(validated.image)
          THEN [err |-> "ConfigError", msg |-> "image", key |-> "image",
                opts |-> validated]
        ELSE IF Falsy(validated.name)
          THEN [err |-> "ConfigError", msg |-> "name", key |-> "name",
                opts |-> validated]
        ELSE [err |-> "none", msg |-> "", key |-> "", opts |-> validated]

\* Variant of _save_container_file that leaves the tag out of its list.
save_container_file_noTag(out_dict) ==
    [k \in DOMAIN out_dict |->
        IF k \in {"group", "net", "network"} /\ out_dict[k] = NoneV
          THEN "" ELSE out_dict[k]]

\* The string fields _save_container_file looks at.
SaveKeys == {"group", "net", "network", "tag"}

\* _save_container_file: None becomes '' in the listed fields, then the
\* mapping is written.
save_container_file(out_dict) ==
    [k \in DOMAIN out_dict |->
        IF k \in SaveKeys /\ out_dict[k] = NoneV THEN "" ELSE out_dict[k]]

(***************************************************************************)
(* Group registry (group.py).                                              *)
(***************************************************************************)
\* DockerGroup.__init__ with no group_data.
EmptyGroup == [master |-> NoneV, members |-> <<>>]

\* DockerGroup.__init__(group_data): master is taken when truthy, members
\* are appended to the empty list.
DockerGroup(group_data) ==
    [master  |-> IF Falsy(group_data.master) THEN NoneV ELSE group_data.master,
     members |-> group_data.members]

\* DockerGroups.__read: every persisted group is added without saving.
ReadGroups(store) == [g \in DOMAIN store |-> DockerGroup(store[g])]

\* DockerContainers.__list_defined: the names of the definition files.
list_defined(files) == DOMAIN files

\* A function extended (or overwritten) at one key.
Put(f, k, v) == [x \in DOMAIN f \cup {k} |-> IF x = k THEN v ELSE f[x]]

GroupsFile == [file |-> "groups", name |-> ""]
ContainerFile(n) == [file |-> "container", name |-> n]

\* Variant of add without the look-up: the group is registered anew and
\* saved whether or not it exists.
groups_add_anew(group, groups, store) ==
    LET g2 == Put(groups, group, EmptyGroup)
    IN  [memG |-> g2, diskG |-> g2, writes |-> <<GroupsFile>>]

\* DockerGroups.add(group) with save=True: [memG, diskG, writes].
groups_add(group, groups, store) ==
    IF group \notin DOMAIN groups
      THEN LET g2 == Put(groups, group, EmptyGroup)
           IN  [memG |-> g2, diskG |-> g2, writes |-> <<GroupsFile>>]
      ELSE [memG |-> groups, diskG |-> store, writes |-> <<>>]

(***************************************************************************)
(* Container registry (containers.py) and set-master (cli/__group__.py).   *)
(***************************************************************************)
\* Variants of define with one step changed.
\* The name is appended to the group without looking for it in the members.
define_noMemberCheck(options, containers, groups, store, files) ==
    LET v      == validate_container_options(options)
        c_opts == v.opts
        name   == c_opts.name
        grp    == c_opts.group
        keep   == [err |-> "none", msg |-> "", index |-> containers,
                   memG |-> groups, diskG |-> store, diskC |-> files,
                   writes |-> <<>>]
    IN  IF v.err # "none"
          THEN [keep EXCEPT !.err = v.err, !.msg = v.msg]
        ELSE IF name \in containers
          THEN [keep EXCEPT !.err = "DockerError", !.msg = "defined"]
        ELSE IF ~Falsy(grp) /\ grp \notin DOMAIN groups
          THEN [keep EXCEPT !.err = "ConfigError", !.msg = "group"]
        ELSE LET link == ~Falsy(grp)
                 g2   == IF link
                           THEN [groups EXCEPT ![grp].members = Append(@, name)]
                           ELSE groups
             IN  [err    |-> "none",
                  msg    |-> "",
                  index  |-> containers \cup {name},
                  memG   |-> g2,
                  diskG  |-> IF link THEN g2 ELSE store,
                  diskC  |-> Put(files, name, save_container_file(c_opts)),
                  writes |-> (IF link THEN <<GroupsFile>> ELSE <<>>)
                             \o <<ContainerFile(name)>>]

\* The group is linked and saved before the name is looked up in the index.
define_groupFirst(options, containers, groups, store, files) ==
    LET v      == validate_container_options(options)
        c_opts == v.opts
        name   == c_opts.name
        grp    == c_opts.group
        keep   == [err |-> "none", msg |-> "", index |-> containers,
                   memG |-> groups, diskG |-> store, diskC |-> files,
                   writes |-> <<>>]
    IN  IF v.err # "none"
          THEN [keep EXCEPT !.err = v.err, !.msg = v.msg]
        ELSE IF ~Falsy(grp) /\ grp \notin DOMAIN groups
          THEN [keep EXCEPT !.err = "ConfigError", !.msg = "group"]
        ELSE LET link == ~Falsy(grp) /\ ~InSeq(name, groups[grp].members)
                 g2   == IF link
                           THEN [groups EXCEPT ![grp].members = Append(@, name)]
                           ELSE groups
                 gd   == IF link THEN g2 ELSE store
                 gw   == IF link THEN <<GroupsFile>> ELSE <<>>
             IN  IF name \in containers
                   THEN [keep EXCEPT !.err = "DockerError", !.msg = "defined",
                                     !.memG = g2, !.diskG = gd, !.writes = gw]
                   ELSE [err    |-> "none",
                         msg    |-> "",
                         index  |-> containers \cup {name},
                         memG   |-> g2,
                         diskG  |-> gd,
                         diskC  |-> Put(files, name, save_container_file(c_opts)),
                         writes |-> gw \o <<ContainerFile(name)>>]

\* The record is registered and written before the group is checked.
define_writeFirst(options, containers, groups, store, files) ==
    LET v      == validate_container_options(options)
        c_opts == v.opts
        name   == c_opts.name
        grp    == c_opts.group
        keep   == [err |-> "none", msg |-> "", index |-> containers,
                   memG |-> groups, diskG |-> store, diskC |-> files,
                   writes |-> <<>>]
        f2     == Put(files, name, save_container_file(c_opts))
    IN  IF v.err # "none"
          THEN [keep EXCEPT !.err = v.err, !.msg = v.msg]
        ELSE IF name \in containers
          THEN [keep EXCEPT !.err = "DockerError", !.msg = "defined"]
        ELSE IF ~Falsy(grp) /\ grp \notin DOMAIN groups
          THEN [keep EXCEPT !.err = "ConfigError", !.msg = "group",
                            !.index = containers \cup {name}, !.diskC = f2,
                            !.writes = <<ContainerFile(name)>>]
        ELSE LET link == ~Falsy(grp) /\ ~InSeq(name, groups[grp].members)
                 g2   == IF link
                           THEN [groups EXCEPT ![grp].members = Append(@, name)]
                           ELSE groups
             IN  [err    |-> "none",
                  msg    |-> "",
                  index  |-> containers \cup {name},
                  memG   |-> g2,
                  diskG  |-> IF link THEN g2 ELSE store,
                  diskC  |-> f2,
                  writes |-> <<ContainerFile(name)>>
                             \o (IF link THEN <<GroupsFile>> ELSE <<>>)]

\* DockerContainers.define from the validation on: v is what
\* validate_container_options returned or raised.
define_validated(v, containers, groups, store, files) ==
    LET c_opts == v.opts
        name   == c_opts.name
        grp    == c_opts.group
        keep   == [err |-> "none", msg |-> "", index |-> containers,
                   memG |-> groups, diskG |-> store, diskC |-> files,
                   writes |-> <<>>]
    IN  IF v.err # "none"
          THEN [keep EXCEPT !.err = v.err, !.msg = v.msg]
        ELSE IF name \in containers
          THEN [keep EXCEPT !.err = "DockerError", !.msg = "defined"]
        ELSE IF ~Falsy(grp) /\ grp \notin DOMAIN groups
          THEN [keep EXCEPT !.err = "ConfigError", !.msg = "group"]
        ELSE LET link == ~Falsy(grp) /\ ~InSeq(name, groups[grp].members)
                 g2   == IF link
                           THEN [groups EXCEPT ![grp].members = Append(@, name)]
                           ELSE groups
             IN  [err    |-> "none",
                  msg    |-> "",
                  index  |-> containers \cup {name},
                  memG   |-> g2,
                  diskG  |-> IF link THEN g2 ELSE store,
                  diskC  |-> Put(files, name, save_container_file(c_opts)),
                  writes |-> (IF link THEN <<GroupsFile>> ELSE <<>>)
                             \o <<ContainerFile(name)>>]

\* DockerContainers.define on the raw mapping read from the definition file:
\* validate, reject a known name, check and link the group, register the
\* path, write the record.  containers is the index, groups the in-memory
\* groups, store the persisted groups, files the persisted records.
define(options, containers, groups, store, files) ==
    define_validated(validate_container_options(options),
                     containers, groups, store, files)

\* Variants of the first half of define.
\* The new member is written into the stored group, not the whole registry.
define_link_merge(v, containers, groups, store) ==
    LET name == v.opts.name
        grp  == v.opts.group
        keep == [err |-> "none", msg |-> "", memG |-> groups, diskG |-> store,
                 writes |-> <<>>]
    IN  IF v.err # "none"
          THEN [keep EXCEPT !.err = v.err, !.msg = v.msg]
        ELSE IF name \in containers
          THEN [keep EXCEPT !.err = "DockerError", !.msg = "defined"]
        ELSE IF ~Falsy(grp) /\ grp \notin DOMAIN groups
          THEN [keep EXCEPT !.err = "ConfigError", !.msg = "group"]
        ELSE IF ~Falsy(grp) /\ ~InSeq(name, groups[grp].members)
          THEN [keep EXCEPT
                  !.memG = [groups EXCEPT ![grp].members = Append(@, name)],
                  !.diskG = IF grp \in DOMAIN store
                              THEN [store EXCEPT ![grp].members = Append(@, name)]
                              ELSE Put(store, grp,
                                       [groups[grp] EXCEPT
                                          !.members = Append(@, name)]),
                  !.writes = <<GroupsFile>>]
        ELSE keep

\* The new member is appended in memory and the groups are not saved.
define_link_noSave(v, containers, groups, store) ==
    LET name == v.opts.name
        grp  == v.opts.group
        keep == [err |-> "none", msg |-> "", memG |-> groups, diskG |-> store,
                 writes |-> <<>>]
    IN  IF v.err # "none"
          THEN [keep EXCEPT !.err = v.err, !.msg = v.msg]
        ELSE IF name \in containers
          THEN [keep EXCEPT !.err = "DockerError", !.msg = "defined"]
        ELSE IF ~Falsy(grp) /\ grp \notin DOMAIN groups
          THEN [keep EXCEPT !.err = "ConfigError", !.msg = "group"]
        ELSE IF ~Falsy(grp) /\ ~InSeq(name, groups[grp].members)
          THEN [keep EXCEPT
                  !.memG = [groups EXCEPT ![grp].members = Append(@, name)]]
        ELSE keep

\* DockerContainers.define up to the group save: the validated record v is
\* checked against the index and the registered groups; a name the group
\* does not list is appended to its members and all groups are saved.
define_link(v, containers, groups, store) ==
    LET name == v.opts.name
        grp  == v.opts.group
        keep == [err |-> "none", msg |-> "", memG |-> groups, diskG |-> store,
                 writes |-> <<>>]
    IN  IF v.err # "none"
          THEN [keep EXCEPT !.err = v.err, !.msg = v.msg]
        ELSE IF name \in containers
          THEN [keep EXCEPT !.err = "DockerError", !.msg = "defined"]
        ELSE IF ~Falsy(grp) /\ grp \notin DOMAIN groups
          THEN [keep EXCEPT !.err = "ConfigError", !.msg = "group"]
        ELSE IF ~Falsy(grp) /\ ~InSeq(name, groups[grp].members)
          THEN LET g2 == [groups EXCEPT ![grp].members = Append(@, name)]
               IN  [keep EXCEPT !.memG = g2, !.diskG = g2,
                                !.writes = <<GroupsFile>>]
        ELSE keep

\* Variant of the second half of define that leaves a definition file that
\* is already there as it is.
define_write_keepExisting(c_opts, containers, files) ==
    [index  |-> containers \cup {c_opts.name},
     diskC  |-> IF c_opts.name \in DOMAIN files
                  THEN files
                  ELSE Put(files, c_opts.name, save_container_file(c_opts)),
     writes |-> <<ContainerFile(c_opts.name)>>]

\* DockerContainers.define after the group save: the path is registered in
\* the index and the record is written to it.
define_write(c_opts, containers, files) ==
    [index  |-> containers \cup {c_opts.name},
     diskC  |-> Put(files, c_opts.name, save_container_file(c_opts)),
     writes |-> <<ContainerFile(c_opts.name)>>]

\* Variant of group_set_master that does not look the master up in the index.
group_set_master_noCheck(group_name, master_name, containers, groups, store) ==
    IF group_name \notin DOMAIN groups
      THEN [err |-> "DockerError", msg |-> "group", memG |-> groups,
            diskG |-> store, writes |-> <<>>]
    ELSE LET g2 == [groups EXCEPT ![group_name].master = master_name]
         IN  [err |-> "none", msg |-> "", memG |-> g2, diskG |-> g2,
              writes |-> <<GroupsFile>>]

\* group_set_master: the group must exist (groups.get raises DockerError),
\* the master must be a defined container (SystemExit otherwise); then the
\* master is set and all groups are saved.
group_set_master(group_name, master_name, containers, groups, store) ==
    IF group_name \notin DOMAIN groups
      THEN [err |-> "DockerError", msg |-> "group", memG |-> groups,
            diskG |-> store, writes |-> <<>>]
    ELSE IF master_name \notin containers
      THEN [err |-> "SystemExit", msg |-> "master", memG |-> groups,
            diskG |-> store, writes |-> <<>>]
    ELSE LET g2 == [groups EXCEPT ![group_name].master = master_name]
         IN  [err |-> "none", msg |-> "", memG |-> g2, diskG |-> g2,
              writes |-> <<GroupsFile>>]

\* No handle (None), no snapshot, no argument.
NoHandle ==
    [name |-> NoneV, image |-> "", bound |-> FALSE,
     info |-> ContainerOptsDefault, file_p |-> FALSE]

NoPre == [bound |-> FALSE, inst |-> "absent", img |-> FALSE]

NoArg == [name |-> "", image |-> "", group |-> ""]

(***************************************************************************)
(* The runtime handle (DockerContainer) against the engine.                *)
(*                                                                         *)
(* A handle is [name, image, bound, info, file_p]: bound tells that        *)
(* __container holds a live instance, info is the validated record, image  *)
(* the name its DockerImage was built with, file_p whether the handle      *)
(* knows its definition file.                                              *)
(* A method maps an outcome [h, eng, calls, err] to the                    *)
(* set of outcomes it can end in: every engine call is logged in calls     *)
(* with ok = FALSE when the engine made it fail, and a raised exception    *)
(* (err # "none") ends whatever follows.                                   *)
(***************************************************************************)
Outcome(h, eng) == [h |-> h, eng |-> eng, calls |-> <<>>, err |-> "none"]

\* The engine call c on the handle's container returned.
Issue(o, c) ==
    [o EXCEPT !.calls = Append(@, [call |-> c, name |-> o.h.name, ok |-> TRUE])]

\* The engine call c on the handle's container raised an engine error.
Fail(o, c) ==
    [o EXCEPT !.calls = Append(@, [call |-> c, name |-> o.h.name, ok |-> FALSE]),
              !.err = "EngineError"]

\* Sequencing: F runs on the outcomes that raised nothing.
Then(S, F(_)) == UNION {IF o.err = "none" THEN F(o) ELSE {o} : o \in S}

\* DockerContainer.__get: nothing when memoized; otherwise a lookup by name
\* that binds the handle when the engine has the instance (NotFound leaves it
\* unbound, any other engine error propagates).
h_get(o) ==
    IF o.h.bound
      THEN {o}
      ELSE { Fail(o, "get"),
             IF o.eng.inst[o.h.name] # "absent"
               THEN [Issue(o, "get") EXCEPT !.h.bound = TRUE]
               ELSE Issue(o, "get") }

\* DockerImage.exists: images.get by name, ImageNotFound gives False.
image_exists(o) == {Fail(o, "img_get"), Issue(o, "img_get")}

ImagePresent(o) == o.h.image \in o.eng.images

\* DockerImage.__init__: the name and the tag the image is pulled by; a
\* name without colon, as every modelled name is, goes with 'latest'.
image_ref(image_name) == [image |-> image_name, tag |-> "latest"]

\* DockerImage.pull: pull (or build) the image by the name and tag the
\* DockerImage was made with.
image_pull(o) ==
    LET c(ok) == [call |-> "pull", name |-> o.h.name, ok |-> ok,
                  image |-> image_ref(o.h.image)]
    IN  { [o EXCEPT !.calls = Append(@, c(FALSE)), !.err = "EngineError"],
          [o EXCEPT !.calls = Append(@, c(TRUE)),
                    !.eng.images = @ \cup {o.h.image}] }

\* A string is the sequence of its characters; the pieces between colons
\* are taken as one character each.
Colon == ":"

\* vol.count(':')
count_colons(vol) == Cardinality({i \in 1..Len(vol) : vol[i] = Colon})

RECURSIVE split(_)
\* vol.split(':')
split(vol) ==
    IF count_colons(vol) = 0 THEN <<vol>>
    ELSE LET i == CHOOSE k \in 1..Len(vol) :
                     vol[k] = Colon /\ \A j \in 1..(k - 1) : vol[j] # Colon
         IN  <<SubSeq(vol, 1, i - 1)>> \o split(SubSeq(vol, i + 1, Len(vol)))

\* Variant of the mount of one entry that takes only 'rw' for read-write
\* and refuses any other third segment but 'ro'.
mount_strictMode(vol) ==
    LET parts == split(vol)
        bind(ro) == [err |-> "none",
                     mount |-> [target |-> parts[2], source |-> parts[1],
                                type |-> "bind", read_only |-> ro]]
    IN  IF count_colons(vol) = 1 THEN bind(FALSE)
        ELSE IF count_colons(vol) = 2 /\ parts[3] \in {<<"ro">>, <<"rw">>}
          THEN bind(parts[3] = <<"ro">>)
        ELSE [err |-> "ConfigError", mount |-> <<>>]

\* Variant of the mount of one entry that binds read-only unless told 'rw'.
mount_roDefault(vol) ==
    LET parts == split(vol)
        bind(ro) == [err |-> "none",
                     mount |-> [target |-> parts[2], source |-> parts[1],
                                type |-> "bind", read_only |-> ro]]
    IN  IF count_colons(vol) = 1 THEN bind(TRUE)
        ELSE IF count_colons(vol) = 2 THEN bind(parts[3] # <<"rw">>)
        ELSE [err |-> "ConfigError", mount |-> <<>>]

\* _CommandDict.mounts, one entry: host:container or host:container:mode,
\* read-only exactly when the mode is 'ro'; any other number of colons is
\* the malformed-path ConfigError.
mount(vol) ==
    LET parts == split(vol)
        bind(ro) == [err |-> "none",
                     mount |-> [target |-> parts[2], source |-> parts[1],
                                type |-> "bind", read_only |-> ro]]
    IN  IF count_colons(vol) = 1 THEN bind(FALSE)
        ELSE IF count_colons(vol) = 2 THEN bind(parts[3] = <<"ro">>)
        ELSE [err |-> "ConfigError", mount |-> <<>>]

\* Variant of mounts that passes over the entries it cannot read.
mounts_skipMalformed(options) ==
    LET good == SelectSeq(options.mounts, LAMBDA vol : mount(vol).err = "none")
    IN  IF good = <<>>
          THEN [err |-> "none", ret |-> <<>>]
          ELSE [err |-> "none",
                ret |-> [x \in {"mounts"} |->
                            [i \in 1..Len(good) |-> mount(good[i]).mount]]]

\* _CommandDict.mounts: the mounts of the entries in order; the first
\* malformed entry raises.
mounts(options) ==
    IF \E i \in 1..Len(options.mounts) : mount(options.mounts[i]).err # "none"
      THEN [err |-> "ConfigError", ret |-> <<>>]
    ELSE IF options.mounts = <<>>
      THEN [err |-> "none", ret |-> <<>>]
    ELSE [err |-> "none",
          ret |-> [x \in {"mounts"} |->
                      [i \in 1..Len(options.mounts) |->
                          mount(options.mounts[i]).mount]]]

\* Variant of networking that passes both settings on.
networking_both(options) ==
    (IF ~Falsy(options.network)
       THEN [x \in {"network"} |-> options.network] ELSE <<>>)
    @@ (IF ~Falsy(options.net)
          THEN [x \in {"network_mode"} |->
                   IF options.net = "host" THEN <<"host">>
                                           ELSE <<"container:", options.net>>]
          ELSE <<>>)

\* _CommandDict.networking: the named network when one is set; otherwise,
\* when net is set, the host's or another container's network namespace.
networking(options) ==
    IF ~Falsy(options.network)
      THEN [x \in {"network"} |-> options.network]
    ELSE IF ~Falsy(options.net)
      THEN [x \in {"network_mode"} |->
               IF options.net = "host" THEN <<"host">>
                                       ELSE <<"container:", options.net>>]
    ELSE <<>>

\* _CommandDict.build, for the modelled fields: [err, ret] with ret the
\* keyword arguments of the engine's run.
build(options) ==
    LET m == mounts(options)
    IN  IF m.err # "none"
          THEN [err |-> m.err, ret |-> <<>>]
          ELSE [err |-> "none",
                ret |-> [x \in {"name"} |-> options.name]
                        @@ m.ret @@ networking(options)]

\* client.containers.run(self.info.image, name=..., detach=True): the engine
\* refuses a name that is in use.
containers_run(o, kw_args) ==
    LET c(ok) == [call |-> "run", name |-> o.h.name, ok |-> ok, args |-> kw_args,
                  image |-> o.h.info.image]
    IN  {[o EXCEPT !.calls = Append(@, c(FALSE)), !.err = "EngineError"]}
        \cup (IF o.eng.inst[o.h.name] = "absent"
                THEN {[o EXCEPT !.calls = Append(@, c(TRUE)),
                                !.eng.inst[o.h.name] = "running",
                                !.h.bound = TRUE]}
                ELSE {})

\* run, from the building of the keyword arguments on.
build_and_run(o) ==
    LET kw == build(o.h.info)
    IN  IF kw.err # "none" THEN {[o EXCEPT !.err = kw.err]}
                           ELSE containers_run(o, kw.ret)

\* Variant of run without the guard on a memoized instance.
h_run_noGuard(o) ==
    Then(image_exists(o), LAMBDA p :
         Then(IF ImagePresent(p) THEN {p} ELSE image_pull(p), build_and_run))

\* Variant of run that pulls the image whether or not it is present.
h_run_alwaysPull(o) ==
    IF o.h.bound
      THEN {[o EXCEPT !.err = "DockerError"]}
      ELSE Then(image_exists(o), LAMBDA p :
                Then(image_pull(p), build_and_run))

\* DockerContainer.run: refuse when bound; pull the image when it is not
\* present; create and start the instance and memoize it.
h_run(o) ==
    IF o.h.bound
      THEN {[o EXCEPT !.err = "DockerError"]}
      ELSE Then(image_exists(o), LAMBDA p :
                Then(IF ImagePresent(p) THEN {p} ELSE image_pull(p),
                     build_and_run))

\* instance.start()
instance_start(o) ==
    {Fail(o, "start"), [Issue(o, "start") EXCEPT !.eng.inst[o.h.name] = "running"]}

\* Variant of start that runs whatever the lookup found.
h_start_alwaysRun(o) == Then(h_get(o), LAMBDA p : h_run(p))

\* DockerContainer.start: resolve, run when there is no instance, start it
\* otherwise.
h_start(o) ==
    Then(h_get(o), LAMBDA p :
         IF ~p.h.bound THEN h_run(p) ELSE instance_start(p))

\* Variant of stop that does nothing when there is no instance.
h_stop_ifAny(o) ==
    Then(h_get(o), LAMBDA p :
         IF ~p.h.bound
           THEN {p}
           ELSE {Fail(p, "stop"),
                 [Issue(p, "stop") EXCEPT !.eng.inst[p.h.name] = "stopped"]})

\* DockerContainer.stop: resolve and stop; with no instance the call on
\* None raises AttributeError.
h_stop(o) ==
    Then(h_get(o), LAMBDA p :
         IF ~p.h.bound
           THEN {[p EXCEPT !.err = "AttributeError"]}
           ELSE {Fail(p, "stop"),
                 [Issue(p, "stop") EXCEPT !.eng.inst[p.h.name] = "stopped"]})

\* Variant of remove that keeps the memoized instance.
h_remove_keepInstance(o) ==
    Then(h_get(o), LAMBDA p :
         IF ~p.h.bound
           THEN {[p EXCEPT !.err = "AttributeError"]}
           ELSE {Fail(p, "remove"),
                 [Issue(p, "remove") EXCEPT !.eng.inst[p.h.name] = "absent"]})

\* DockerContainer.remove: resolve, remove, forget the instance.
h_remove(o) ==
    Then(h_get(o), LAMBDA p :
         IF ~p.h.bound
           THEN {[p EXCEPT !.err = "AttributeError"]}
           ELSE {Fail(p, "remove"),
                 [Issue(p, "remove") EXCEPT !.eng.inst[p.h.name] = "absent",
                                            !.h.bound = FALSE]})

\* DockerContainer.restart: stop, then start.
h_restart(o) == Then(h_stop(o), h_start)

\* DockerContainer.rebuild: stop, remove, start.
h_rebuild(o) == Then(h_stop(o), LAMBDA p : Then(h_remove(p), h_start))

\* Variant of update that goes on to rebuild the container.
h_update_rebuild(o) == Then(image_pull(o), h_rebuild)

\* DockerContainer.update: the image's pull and nothing else.
h_update(o) == image_pull(o)

\* Variant of tag that leaves the options alone.
h_tag_noSet(o, img_tag) == h_get(o)

\* Variant of tag that also takes the tag for the image to pull and run.
h_tag_image(o, img_tag) ==
    Then(h_get(o), LAMBDA p : {[p EXCEPT !.h.info.tag = img_tag,
                                         !.h.info.image = img_tag,
                                         !.h.image = img_tag]})

\* DockerContainer.tag, up to the write: resolve, then set the options' tag.
h_tag(o, img_tag) ==
    Then(h_get(o), LAMBDA p : {[p EXCEPT !.h.info.tag = img_tag]})

\* The handle method (or the image's pull) named m.
Method(m, o) ==
    CASE m = "start"   -> h_start(o)
      [] m = "stop"    -> h_stop(o)
      [] m = "remove"  -> h_remove(o)
      [] m = "run"     -> h_run(o)
      [] m = "pull"    -> image_pull(o)
      [] m = "restart" -> h_restart(o)
      [] m = "rebuild" -> h_rebuild(o)
      [] m = "update"  -> h_update(o)

\* DockerContainer.__init__: a handle on a validated record, with no
\* instance memoized.
DockerContainer(info, file_p) ==
    [name |-> info.name, image |-> info.image, bound |-> FALSE,
     info |-> info, file_p |-> file_p]

\* DockerContainers.get: the persisted record is read and validated again,
\* and the handle knows its file.
containers_get(n, files) ==
    DockerContainer(validate_container_options(files[n]).opts, TRUE)

(***************************************************************************)
(* Group orchestration (cli/__group__.py).                                 *)
(*                                                                         *)
(* A group operation resolves the master handle and the handles of the     *)
(* other members, then calls handle methods one after the other.  The      *)
(* calls are a sequence of [m, t]: method m on the master (t = 0) or on    *)
(* the t-th handle of the containers list.                                 *)
(***************************************************************************)
\* Variant of _group_list that passes over the names that are not defined.
group_list_skipUndefined(group, containers, files) ==
    LET rest == SelectSeq(group.members,
                          LAMBDA x : x # group.master /\ x \in containers)
    IN  [err |-> "none",
         master |-> IF Falsy(group.master) \/ group.master \notin containers
                      THEN NoHandle
                      ELSE containers_get(group.master, files),
         containers |-> [i \in 1..Len(rest) |-> containers_get(rest[i], files)]]

\* _group_list: the master handle when the group has a master, and the
\* handles of the members other than the master, in members order;
\* containers.get raises DockerError for a name that is not defined.
group_list(group, containers, files) ==
    LET rest == SelectSeq(group.members, LAMBDA x : x # group.master)
    IN  IF \/ (~Falsy(group.master) /\ group.master \notin containers)
           \/ \E i \in 1..Len(rest) : rest[i] \notin containers
          THEN [err |-> "DockerError", master |-> NoHandle, containers |-> <<>>]
          ELSE [err |-> "none",
                master |-> IF Falsy(group.master)
                             THEN NoHandle
                             ELSE containers_get(group.master, files),
                containers |-> [i \in 1..Len(rest) |->
                                   containers_get(rest[i], files)]]

HCall(m, t) == [m |-> m, t |-> t]

\* Variant of _group_start with the master after the other members.
group_start_masterLast(hasMaster, k) ==
    [i \in 1..k |-> HCall("start", i)]
    \o (IF hasMaster THEN <<HCall("start", 0)>> ELSE <<>>)

\* _group_start: the master, then the containers in order.
group_start_calls(hasMaster, k) ==
    (IF hasMaster THEN <<HCall("start", 0)>> ELSE <<>>)
    \o [i \in 1..k |-> HCall("start", i)]

\* Variant of _group_stop with the master before the other members.
group_stop_masterFirst(hasMaster, k, remove) ==
    (IF hasMaster
       THEN <<HCall("stop", 0)>> \o (IF remove THEN <<HCall("remove", 0)>> ELSE <<>>)
       ELSE <<>>)
    \o (IF remove
          THEN [j \in 1..(2 * k) |->
                   IF j % 2 = 1 THEN HCall("stop", (j + 1) \div 2)
                                ELSE HCall("remove", j \div 2)]
          ELSE [i \in 1..k |-> HCall("stop", i)])

\* _group_stop: each container in order is stopped (and removed right away
\* when remove is set), then the master likewise.
group_stop_calls(hasMaster, k, remove) ==
    (IF remove
       THEN [j \in 1..(2 * k) |->
                IF j % 2 = 1 THEN HCall("stop", (j + 1) \div 2)
                             ELSE HCall("remove", j \div 2)]
       ELSE [i \in 1..k |-> HCall("stop", i)])
    \o (IF hasMaster
          THEN <<HCall("stop", 0)>> \o (IF remove THEN <<HCall("remove", 0)>> ELSE <<>>)
          ELSE <<>>)

\* Variant of group_update that starts each container right after removing it.
group_update_rolling(hasMaster, k) ==
    (IF hasMaster THEN <<HCall("pull", 0)>> ELSE <<>>)
    \o [i \in 1..k |-> HCall("pull", i)]
    \o [j \in 1..(3 * k) |->
           IF j % 3 = 1 THEN HCall("stop", (j + 2) \div 3)
           ELSE IF j % 3 = 2 THEN HCall("remove", (j + 1) \div 3)
           ELSE HCall("start", j \div 3)]
    \o (IF hasMaster
          THEN <<HCall("stop", 0), HCall("remove", 0), HCall("start", 0)>>
          ELSE <<>>)

\* group_update: pull for the master and every container, then the stop
\* sequence with remove, then the start sequence.
group_update_calls(hasMaster, k) ==
    (IF hasMaster THEN <<HCall("pull", 0)>> ELSE <<>>)
    \o [i \in 1..k |-> HCall("pull", i)]
    \o group_stop_calls(hasMaster, k, TRUE)
    \o group_start_calls(hasMaster, k)

\* The calls of the group operation op (group_start, group_stop with its
\* default remove=False, group_update).
GroupCalls(op, hasMaster, k) ==
    CASE op = "group_start"  -> group_start_calls(hasMaster, k)
      [] op = "group_stop"   -> group_stop_calls(hasMaster, k, FALSE)
      [] op = "group_update" -> group_update_calls(hasMaster, k)

\* Variant in which a raised exception does not end the sequence.
after_call_goOn(err, i, n) ==
    IF i >= n THEN "done" ELSE "group"

\* Where the operation stands after its i-th call of n: an exception is not
\* caught by the orchestration and ends it.
after_call(err, i, n) ==
    IF err # "none" THEN "failed"
    ELSE IF i >= n THEN "done"
    ELSE "group"

\* The options of the group subcommand (C_LINE_ARGS['group']['ops']) with
\* none given.
NoGroupArgs ==
    [group_define |-> NoneV, group_info |-> NoneV, group_set_master |-> NoneV,
     group_restart |-> NoneV, group_start |-> NoneV, group_stop |-> NoneV,
     group_update |-> NoneV, groups_list |-> FALSE]

\* Variant of do_group with a branch for --restart that does nothing.
do_group_restartAccepted(args) ==
    IF ~Falsy(args.group_define) THEN [branch |-> "group_define", code |-> 0]
    ELSE IF ~Falsy(args.group_info) THEN [branch |-> "group_info", code |-> 0]
    ELSE IF ~Falsy(args.group_set_master)
      THEN [branch |-> "group_set_master", code |-> 0]
    ELSE IF ~Falsy(args.group_restart)
      THEN [branch |-> "group_restart", code |-> 0]
    ELSE IF ~Falsy(args.group_start) THEN [branch |-> "group_start", code |-> 0]
    ELSE IF ~Falsy(args.group_stop) THEN [branch |-> "group_stop", code |-> 0]
    ELSE IF ~Falsy(args.group_update) THEN [branch |-> "group_update", code |-> 0]
    ELSE IF args.groups_list THEN [branch |-> "groups_list", code |-> 0]
    ELSE [branch |-> "none", code |-> 1]

\* do_group: the branch taken for the options given, and the exit status
\* do_group itself sets: with no branch taken the error is logged and
\* SystemExit(1) raised.  No branch looks at group_restart.
do_group(args) ==
    IF ~Falsy(args.group_define) THEN [branch |-> "group_define", code |-> 0]
    ELSE IF ~Falsy(args.group_info) THEN [branch |-> "group_info", code |-> 0]
    ELSE IF ~Falsy(args.group_set_master)
      THEN [branch |-> "group_set_master", code |-> 0]
    ELSE IF ~Falsy(args.group_start) THEN [branch |-> "group_start", code |-> 0]
    ELSE IF ~Falsy(args.group_stop) THEN [branch |-> "group_stop", code |-> 0]
    ELSE IF ~Falsy(args.group_update) THEN [branch |-> "group_update", code |-> 0]
    ELSE IF args.groups_list THEN [branch |-> "groups_list", code |-> 0]
    ELSE [branch |-> "none", code |-> 1]

(***************************************************************************)
(* Inputs and initial states.                                              *)
(***************************************************************************)
\* The raw mappings a definition file can hold.
RawDefs ==
    [name : DefNames, image : {ImageName}, group : Groups \cup {""}]
    \cup [name : DefNames, image : {ImageName}]
    \cup { [name |-> "", image |-> ImageName],
           [image |-> ImageName, group |-> GroupList[1]],
           [name |-> NameList[1], image |-> "", group |-> GroupList[1]],
           [name |-> NameList[1]] }

\* The definition file define writes for a container n of image ImageName
\* in group g ('' for none) with nothing else set.
DefinitionFile(n, g) ==
    [ContainerOptsDefault EXCEPT !.name = n, !.image = ImageName, !.group = g]

EngineInit == [inst |-> [n \in Names |-> "absent"], images |-> {}]

\* Group stores found at construction: none, or one group that still lists
\* a container whose definition file was removed by hand.
InitStores ==
    { <<>>,
      [g \in {GroupList[1]} |-> [master |-> NoneV, members |-> <<NameList[1]>>]] }

\* The processes of the runs with two command lines at once, and a process
\* that is not running.
Procs == {1, 2}
NoProc == [pc |-> "none", index |-> {}, memG |-> <<>>,
           opts |-> ContainerOptsDefault, wrote |-> {}]

InitIdle ==
    /\ engine = EngineInit
    /\ pc = "idle"
    /\ mh = NoHandle
    /\ hs = <<>>
    /\ plan = <<>>
    /\ ip = 1
    /\ calls = <<>>
    /\ trace = <<>>
    /\ last = [op |-> "construct", arg |-> NoArg, err |-> "none", msg |-> "",
                pre |-> NoPre]
    /\ writes = <<>>
    /\ rec = <<>>
    /\ procs = [p \in Procs |-> NoProc]

InitRegistry ==
    /\ diskC = <<>>
    /\ diskG \in InitStores
    /\ index = list_defined(diskC)
    /\ memG = ReadGroups(diskG)
    /\ InitIdle

(***************************************************************************)
(* Registry actions.                                                       *)
(***************************************************************************)
\* A new Docker(config_path): both registries are rebuilt from disk.
Construct ==
    /\ pc = "idle"
    /\ index' = list_defined(diskC)
    /\ memG' = ReadGroups(diskG)
    /\ last' = [op |-> "construct", arg |-> NoArg, err |-> "none", msg |-> "",
                pre |-> NoPre]
    /\ writes' = <<>>
    /\ rec' = <<>>
    /\ UNCHANGED <<diskC, diskG>>
    /\ UNCHANGED engVars
    /\ UNCHANGED procs

GroupAdd(g) ==
    /\ pc = "idle"
    /\ LET r == groups_add(g, memG, diskG)
       IN  /\ memG' = r.memG
           /\ diskG' = r.diskG
           /\ writes' = r.writes
    /\ last' = [op |-> "group_add", arg |-> [NoArg EXCEPT !.group = g],
                err |-> "none", msg |-> "", pre |-> NoPre]
    /\ rec' = <<>>
    /\ UNCHANGED <<diskC, index>>
    /\ UNCHANGED engVars
    /\ UNCHANGED procs

\* The registries, the files and the record in hand after a define of d
\* that ended as r.
Defined(d, r) ==
    /\ pc = "idle"
    /\ index' = r.index
    /\ memG' = r.memG
    /\ diskG' = r.diskG
    /\ diskC' = r.diskC
    /\ writes' = r.writes
    /\ last' = [op |-> "define", arg |-> d, err |-> r.err, msg |-> r.msg,
                pre |-> NoPre]
    /\ rec' = IF r.err = "none"
                THEN <<validate_container_options(d).opts>> ELSE <<>>
    /\ UNCHANGED engVars
    /\ UNCHANGED procs

Define(d) == Defined(d, define(d, index, memG, diskG, diskC))

SetMaster(g, m) ==
    /\ pc = "idle"
    /\ LET r == group_set_master(g, m, index, memG, diskG)
       IN  /\ memG' = r.memG
           /\ diskG' = r.diskG
           /\ writes' = r.writes
           /\ last' = [op |-> "set_master",
                       arg |-> [NoArg EXCEPT !.name = m, !.group = g],
                       err |-> r.err, msg |-> r.msg, pre |-> NoPre]
    /\ rec' = <<>>
    /\ UNCHANGED <<diskC, index>>
    /\ UNCHANGED engVars
    /\ UNCHANGED procs

NextRegistry ==
    \/ Construct
    \/ \E g \in Groups : GroupAdd(g)
    \/ \E d \in RawDefs : Define(d)
    \/ \E g \in Groups, m \in Names : SetMaster(g, m)

SpecRegistry == InitRegistry /\ [][NextRegistry]_vars

(***************************************************************************)
(* Group operations, step by step.                                         *)
(***************************************************************************)
\* Registries in which the one group lists some of the containers, each
\* once, in any order, with any container (or none) as master, and every
\* container is defined, or every one but one whose definition file was
\* removed by hand.
MemberLists ==
    {s \in UNION {[1..k -> Names] : k \in 0..NumNames} : NoDup(s)}

DefinedSets == {Names} \cup {Names \ {n} : n \in Names}

InitGroupOps ==
    /\ \E members \in MemberLists, master \in Names \cup {NoneV},
          defined \in DefinedSets :
          /\ diskG = [g \in {GroupList[1]} |->
                         [master |-> master, members |-> members]]
          /\ diskC = [n \in defined |->
                         DefinitionFile(n, IF InSeq(n, members)
                                             THEN GroupList[1] ELSE "")]
    /\ index = list_defined(diskC)
    /\ memG = ReadGroups(diskG)
    /\ InitIdle

\* group_start / group_stop / group_update up to the first handle call: a
\* new Docker(config_path), _group_get, _group_list.
GroupBegin(op, g) ==
    /\ pc = "idle"
    /\ index' = list_defined(diskC)
    /\ memG' = ReadGroups(diskG)
    /\ calls' = <<>>
    /\ trace' = <<>>
    /\ ip' = 1
    /\ writes' = <<>>
    /\ IF g \notin DOMAIN memG'
         THEN /\ pc' = "failed"
              /\ last' = [op |-> op, arg |-> [NoArg EXCEPT !.group = g],
                          err |-> "SystemExit", msg |-> "group", pre |-> NoPre]
              /\ UNCHANGED <<mh, hs, plan>>
         ELSE LET r == group_list(memG'[g], index', diskC)
              IN  IF r.err # "none"
                    THEN /\ pc' = "failed"
                         /\ last' = [op |-> op, arg |-> [NoArg EXCEPT !.group = g],
                                     err |-> r.err, msg |-> "undefined",
                                     pre |-> NoPre]
                         /\ UNCHANGED <<mh, hs, plan>>
                    ELSE /\ mh' = r.master
                         /\ hs' = r.containers
                         /\ plan' = GroupCalls(op, r.master # NoHandle,
                                               Len(r.containers))
                         /\ pc' = IF plan' = <<>> THEN "done" ELSE "group"
                         /\ last' = [op |-> op, arg |-> [NoArg EXCEPT !.group = g],
                                     err |-> "none", msg |-> "", pre |-> NoPre]
    /\ UNCHANGED <<diskC, diskG, engine, rec>>
    /\ UNCHANGED procs

GroupStart(g) == GroupBegin("group_start", g)
GroupStop(g) == GroupBegin("group_stop", g)
GroupUpdate(g) == GroupBegin("group_update", g)

\* The group subcommand with --restart g and no other option: do_group
\* runs on the parsed options; with no branch taken no registry is built
\* and the process exits with the status do_group set.
GroupRestart(g) ==
    /\ pc = "idle"
    /\ LET r == do_group([NoGroupArgs EXCEPT !.group_restart = g])
       IN  /\ pc' = IF r.branch = "none" THEN "failed" ELSE "done"
           /\ last' = [op |-> "group_restart",
                       arg |-> [NoArg EXCEPT !.group = g],
                       err |-> IF r.branch = "none" THEN "SystemExit" ELSE "none",
                       msg |-> IF r.branch = "none" THEN "action" ELSE "",
                       code |-> r.code, pre |-> NoPre]
    /\ calls' = <<>>
    /\ trace' = <<>>
    /\ writes' = <<>>
    /\ UNCHANGED <<diskC, diskG, index, memG, engine, mh, hs, plan, ip, rec>>
    /\ UNCHANGED procs

\* The next handle call of the running group operation.
GroupStep ==
    /\ pc = "group"
    /\ ip <= Len(plan)
    /\ LET c == plan[ip]
           h == IF c.t = 0 THEN mh ELSE hs[c.t]
       IN  \E o \in Method(c.m, Outcome(h, engine)) :
              /\ engine' = o.eng
              /\ mh' = IF c.t = 0 THEN o.h ELSE mh
              /\ hs' = IF c.t = 0 THEN hs ELSE [hs EXCEPT ![c.t] = o.h]
              /\ calls' = calls \o o.calls
              /\ trace' = Append(trace, [m |-> c.m, name |-> h.name])
              /\ pc' = after_call(o.err, ip, Len(plan))
              /\ ip' = IF o.err = "none" THEN ip + 1 ELSE ip
              /\ last' = [last EXCEPT !.err = o.err]
    /\ UNCHANGED <<diskC, diskG, index, memG, writes, plan, rec>>
    /\ UNCHANGED procs

\* The process ends (or the handle is dropped); the next one starts from a
\* new Docker(config_path).
Exit ==
    /\ pc \in {"done", "failed", "handle"}
    /\ pc' = "idle"
    /\ mh' = NoHandle
    /\ hs' = <<>>
    /\ plan' = <<>>
    /\ ip' = 1
    /\ calls' = <<>>
    /\ trace' = <<>>
    /\ writes' = <<>>
    /\ index' = list_defined(diskC)
    /\ memG' = ReadGroups(diskG)
    /\ last' = [op |-> "construct", arg |-> NoArg, err |-> "none", msg |-> "",
                pre |-> NoPre]
    /\ rec' = <<>>
    /\ UNCHANGED <<diskC, diskG, engine>>
    /\ UNCHANGED procs

NextGroupOps ==
    \/ \E g \in Groups : GroupStart(g)
    \/ \E g \in Groups : GroupStop(g)
    \/ \E g \in Groups : GroupUpdate(g)
    \/ \E g \in Groups : GroupRestart(g)
    \/ GroupStep
    \/ Exit

SpecGroupOps == InitGroupOps /\ [][NextGroupOps]_vars

(***************************************************************************)
(* One handle, used through the library.                                   *)
(***************************************************************************)
InitHandle ==
    /\ diskC = [n \in Names |-> DefinitionFile(n, "")]
    /\ diskG = <<>>
    /\ index = list_defined(diskC)
    /\ memG = ReadGroups(diskG)
    /\ InitIdle

\* The names asked of containers.get: the defined ones and one more.
AskedNames == Names \cup {NameList[NumNames + 1]}

\* DockerContainers.get(container_name).
ContainerGet(n) ==
    /\ pc = "idle"
    /\ calls' = <<>>
    /\ trace' = <<>>
    /\ IF n \notin index
         THEN /\ last' = [op |-> "get", arg |-> [NoArg EXCEPT !.name = n],
                          err |-> "DockerError", msg |-> "undefined",
                          pre |-> NoPre]
              /\ UNCHANGED <<pc, hs>>
         ELSE IF validate_container_options(diskC[n]).err # "none"
         THEN /\ last' = [op |-> "get", arg |-> [NoArg EXCEPT !.name = n],
                          err |-> "ConfigError", msg |-> "invalid",
                          pre |-> NoPre]
              /\ UNCHANGED <<pc, hs>>
         ELSE /\ hs' = <<containers_get(n, diskC)>>
              /\ pc' = "handle"
              /\ last' = [op |-> "get", arg |-> [NoArg EXCEPT !.name = n],
                          err |-> "none", msg |-> "", pre |-> NoPre]
    /\ UNCHANGED <<diskC, diskG, index, memG, writes, engine, mh, plan, ip, rec>>
    /\ UNCHANGED procs

\* One call of method m on the handle; last.pre keeps what the call found:
\* whether the handle was bound, the engine's state of the container and
\* whether the image was present.
HandleCall(m) ==
    /\ pc = "handle"
    /\ LET h == hs[1]
       IN  \E o \in Method(m, Outcome(h, engine)) :
              /\ engine' = o.eng
              /\ hs' = <<o.h>>
              /\ calls' = o.calls
              /\ trace' = <<[m |-> m, name |-> h.name]>>
              /\ last' = [op |-> m, arg |-> [NoArg EXCEPT !.name = h.name],
                          err |-> o.err, msg |-> "",
                          pre |-> [bound |-> h.bound,
                                   inst |-> engine.inst[h.name],
                                   img |-> h.image \in engine.images]]
    /\ UNCHANGED <<diskC, diskG, index, memG, writes, pc, mh, plan, ip, rec>>
    /\ UNCHANGED procs

HandleStart == HandleCall("start")
HandleStop == HandleCall("stop")
HandleRemove == HandleCall("remove")
HandleRun == HandleCall("run")
HandleRestart == HandleCall("restart")
HandleRebuild == HandleCall("rebuild")
HandleUpdate == HandleCall("update")

NextHandle ==
    \/ \E n \in AskedNames : ContainerGet(n)
    \/ HandleStart
    \/ HandleStop
    \/ HandleRemove
    \/ HandleRun
    \/ HandleRestart
    \/ HandleRebuild
    \/ HandleUpdate
    \/ Exit

SpecHandle == InitHandle /\ [][NextHandle]_vars

(***************************************************************************)
(* The library on definitions that use every modelled field.               *)
(***************************************************************************)
\* The container these definitions are about, and a group nobody added.
OptName == NameList[1]
NoGroup == GroupList[NumGroups + 1]

\* Bounded sets of raw mappings are written as sets of records over all the
\* keys and then stripped of the keys marked as left out.
NoKey == "<no key>"
NoKeyList == <<<<"<no key>">>>>

Omit(f) ==
    [k \in {x \in DOMAIN f :
                CASE DeclaredType(x) = "str" -> f[x] # NoKey
                  [] DeclaredType(x) = "list" -> f[x] # NoKeyList
                  [] OTHER -> TRUE} |-> f[k]]

\* Mount entries: 'host:cont', 'host:cont:ro', a third segment that is no
\* mode, one colon too many, no colon.
MountRW == <<"/a", Colon, "/b">>
MountRO == <<"/a", Colon, "/b", Colon, "ro">>
MountBadMode == <<"/a", Colon, "/b", Colon, "/c">>
MountThreeColons == <<"/a", Colon, "/b", Colon, "ro", Colon>>
MountNoColon == <<"/a">>

\* Every string of at most MaxMountLen characters.
MountChars == {Colon, "/a", "ro", "rw"}
MountEntries == UNION {[1..k -> MountChars] : k \in 0..MaxMountLen}

\* The raw mappings given to validate: every way to give or leave out the
\* required fields with values of the right and of a wrong type, and every
\* way to give, leave empty or leave out the optional ones.
RawRequired ==
    LET full == [name : {NoKey, "", OptName, IntV},
                 image : {NoKey, "", ImageName, NoneV},
                 tag : {NoKey, "", "v1"},
                 mounts : {NoKeyList, <<>>, <<MountRW>>, <<MountRW, IntElem>>,
                           StrForList}]
    IN  {Omit(f) : f \in full}
        \cup {Omit(f) @@ [x \in {"image_insecure"} |-> b] :
                 f \in full, b \in BOOLEAN}

RawOptional ==
    LET full == [name : {OptName}, image : {ImageName},
                 group : {NoKey, "", GroupList[1]},
                 tag : {NoKey, "", "v1"},
                 net : {NoKey, "", "host", "c1"},
                 network : {NoKey, "", "lan"},
                 mounts : {NoKeyList, <<>>, <<MountRO>>}]
    IN  {Omit(f) : f \in full}

RawOpts == RawRequired \cup RawOptional

\* The definition files given to define: the group and the tag given, left
\* empty or left out; the network settings given or left out; mounts well
\* and ill formed; files that validate refuses.
RawFiles ==
    LET base  == [name |-> OptName, image |-> ImageName]
        full1 == [group : {NoKey, "", GroupList[1], NoGroup},
                  tag : {NoKey, "", "v1"},
                  image_insecure : BOOLEAN]
        full2 == [net : {NoKey, "", "host", "c1"},
                  network : {NoKey, "", "lan"},
                  mounts : {NoKeyList, <<>>, <<MountRW, MountRO>>}]
        full3 == [mounts : {<<MountRW, MountNoColon>>, <<MountThreeColons>>,
                            <<MountBadMode>>}]
    IN  {Omit(f) @@ base : f \in full1 \cup full2 \cup full3}
        \cup { [name |-> OptName], [image |-> ImageName],
               [name |-> OptName, image |-> ImageName, tag |-> NoneV] }

\* The mappings a handle is made of directly: one mount entry of any shape,
\* or one of the two network settings, or both.
RawHandles ==
    {[name |-> OptName, image |-> ImageName, mounts |-> <<e>>] :
        e \in MountEntries}
    \cup {Omit(f) : f \in [name : {OptName}, image : {ImageName},
                           net : {NoKey, "", "host", "c1"},
                           network : {NoKey, "", "lan"}]}

TagValues == {"", "v1", "v2"}

\* validate_container_options called by the library's user.
Validate(d) ==
    /\ pc = "idle"
    /\ LET v == validate_container_options(d)
       IN  /\ last' = [op |-> "validate", arg |-> d, err |-> v.err,
                       msg |-> v.msg, key |-> v.key, pre |-> NoPre]
           /\ rec' = IF v.err = "none" THEN <<v.opts>> ELSE <<>>
    /\ writes' = <<>>
    /\ pc' = "done"
    /\ UNCHANGED <<diskC, diskG, index, memG>>
    /\ UNCHANGED <<engine, mh, hs, plan, ip, calls, trace>>
    /\ UNCHANGED procs

\* DockerContainer(client, info, image) on a record the user validated, with
\* no definition file behind it.
ContainerNew(d) ==
    /\ pc = "idle"
    /\ LET v == validate_container_options(d)
       IN  /\ v.err = "none"
           /\ hs' = <<DockerContainer(v.opts, FALSE)>>
           /\ rec' = <<v.opts>>
    /\ pc' = "handle"
    /\ last' = [op |-> "new", arg |-> d, err |-> "none", msg |-> "",
                pre |-> NoPre]
    /\ calls' = <<>>
    /\ trace' = <<>>
    /\ writes' = <<>>
    /\ UNCHANGED <<diskC, diskG, index, memG, engine, mh, plan, ip>>
    /\ UNCHANGED procs

\* A file as an operation wrote it.
WrittenFile(kind, n, data) == [file |-> kind, name |-> n, data |-> data]

\* DockerContainer.tag(img_tag): resolve, set the tag, and rewrite the
\* definition file when the handle has one.
HandleTag(img_tag) ==
    /\ pc = "handle"
    /\ LET h == hs[1]
       IN  \E o \in h_tag(Outcome(h, engine), img_tag) :
              /\ engine' = o.eng
              /\ hs' = <<o.h>>
              /\ calls' = o.calls
              /\ trace' = <<[m |-> "tag", name |-> h.name]>>
              /\ last' = [op |-> "tag", arg |-> [NoArg EXCEPT !.name = h.name],
                          tag |-> img_tag, err |-> o.err, msg |-> "",
                          pre |-> [bound |-> h.bound,
                                   inst |-> engine.inst[h.name],
                                   img |-> h.image \in engine.images]]
              /\ IF o.err = "none" /\ o.h.file_p
                   THEN /\ diskC' = Put(diskC, h.name,
                                        save_container_file(o.h.info))
                        /\ writes' = <<ContainerFile(h.name)>>
                   ELSE /\ diskC' = diskC
                        /\ writes' = <<>>
    /\ UNCHANGED <<diskG, index, memG, pc, mh, plan, ip, rec>>
    /\ UNCHANGED procs

\* DockerContainer.dump(): the options as they are, written to
\* <name>.yaml in the current directory.
HandleDump ==
    /\ pc = "handle"
    /\ writes' = <<WrittenFile("dump", hs[1].info.name, hs[1].info)>>
    /\ calls' = <<>>
    /\ trace' = <<[m |-> "dump", name |-> hs[1].name]>>
    /\ last' = [op |-> "dump", arg |-> [NoArg EXCEPT !.name = hs[1].name],
                err |-> "none", msg |-> "",
                pre |-> [bound |-> hs[1].bound,
                         inst |-> engine.inst[hs[1].name],
                         img |-> hs[1].image \in engine.images]]
    /\ UNCHANGED <<diskC, diskG, index, memG, engine, pc, mh, hs, plan, ip, rec>>
    /\ UNCHANGED procs

\* The registry the library starts from: no container, one group.
InitLibrary ==
    /\ diskC = <<>>
    /\ diskG = [g \in {GroupList[1]} |-> EmptyGroup]
    /\ index = list_defined(diskC)
    /\ memG = ReadGroups(diskG)
    /\ InitIdle

\* Validation and handles made directly of validated records.
NextOptions ==
    \/ \E d \in RawOpts : Validate(d)
    \/ \E d \in RawHandles : ContainerNew(d)
    \/ HandleRun
    \/ Exit

SpecOptions == InitLibrary /\ [][NextOptions]_vars

\* Definitions defined, read back and run.
NextLibrary ==
    \/ \E d \in RawFiles : Define(d)
    \/ \E n \in {OptName, NameList[2]} : ContainerGet(n)
    \/ HandleRun
    \/ Exit

SpecLibrary == InitLibrary /\ [][NextLibrary]_vars

\* Handles with and without a definition file, tagged and dumped.
NextTagging ==
    \/ \E d \in RawFiles : Define(d)
    \/ \E d \in RawFiles : ContainerNew(d)
    \/ \E n \in {OptName, NameList[2]} : ContainerGet(n)
    \/ \E t \in TagValues : HandleTag(t)
    \/ HandleDump
    \/ Exit

SpecTagging == InitLibrary /\ [][NextTagging]_vars

\* Handles on defined containers, tagged, updated and run.
NextRetag ==
    \/ \E n \in DefNames : ContainerGet(n)
    \/ \E t \in TagValues : HandleTag(t)
    \/ HandleUpdate
    \/ HandleRun
    \/ Exit

SpecRetag == InitHandle /\ [][NextRetag]_vars

(***************************************************************************)
(* Two processes on the same configuration directory.                      *)
(*                                                                         *)
(* Each process is one run of the program: it builds its registries from  *)
(* the files when it starts and never reads them again; define is taken    *)
(* in its two writes, the group save and the record write, and a process   *)
(* can stop between them.  procs[p].wrote keeps the names whose record the *)
(* process wrote.                                                          *)
(***************************************************************************)
\* The definitions process p defines: a name, the image, the group; the
\* tag tells the files of the two processes apart.
ProcTag == <<"v1", "v2">>
ProcDefs(p) ==
    [name : DefNames, image : {ImageName}, group : {GroupList[1]},
     tag : {ProcTag[p]}]

\* Docker(config_path) in process p.
PConstruct(p) ==
    /\ procs[p].pc = "none"
    /\ procs' = [procs EXCEPT ![p] =
                   [NoProc EXCEPT !.pc = "idle",
                                  !.index = list_defined(diskC),
                                  !.memG = ReadGroups(diskG)]]
    /\ last' = [op |-> "construct", proc |-> p, arg |-> NoArg, err |-> "none",
                msg |-> "", pre |-> NoPre]
    /\ writes' = <<>>
    /\ UNCHANGED <<diskC, diskG, index, memG, rec>>
    /\ UNCHANGED engVars

\* Process p runs define(d) up to and with the group save.
PLinked(p, d, r) ==
    /\ procs[p].pc = "idle"
    /\ procs' = [procs EXCEPT
                   ![p].memG = r.memG,
                   ![p].pc = IF r.err = "none" THEN "linked" ELSE "idle",
                   ![p].opts = IF r.err = "none"
                                 THEN validate_container_options(d).opts
                                 ELSE ContainerOptsDefault]
    /\ diskG' = r.diskG
    /\ writes' = r.writes
    /\ last' = [op |-> "define_link", proc |-> p, arg |-> d, err |-> r.err,
                msg |-> r.msg, pre |-> NoPre]
    /\ UNCHANGED <<diskC, index, memG, rec>>
    /\ UNCHANGED engVars

PDefineLink(p, d) ==
    PLinked(p, d, define_link(validate_container_options(d),
                              procs[p].index, procs[p].memG, diskG))

\* Process p registers the path and writes the record: define returns.
PDefineWrite(p) ==
    /\ procs[p].pc = "linked"
    /\ LET r == define_write(procs[p].opts, procs[p].index, diskC)
       IN  /\ procs' = [procs EXCEPT ![p].index = r.index,
                                     ![p].pc = "idle",
                                     ![p].wrote = @ \cup {procs[p].opts.name},
                                     ![p].opts = ContainerOptsDefault]
           /\ diskC' = r.diskC
           /\ writes' = r.writes
    /\ last' = [op |-> "define_write", proc |-> p,
                arg |-> [NoArg EXCEPT !.name = procs[p].opts.name,
                                      !.group = IF Falsy(procs[p].opts.group)
                                                  THEN ""
                                                  ELSE procs[p].opts.group],
                err |-> "none", msg |-> "", pre |-> NoPre]
    /\ UNCHANGED <<diskG, index, memG, rec>>
    /\ UNCHANGED engVars

\* Process p is stopped between the two writes of define.
PCrash(p) ==
    /\ procs[p].pc = "linked"
    /\ procs' = [procs EXCEPT ![p] = [NoProc EXCEPT !.pc = "stopped"]]
    /\ last' = [op |-> "crash", proc |-> p,
                arg |-> [NoArg EXCEPT !.name = procs[p].opts.name,
                                      !.group = IF Falsy(procs[p].opts.group)
                                                  THEN ""
                                                  ELSE procs[p].opts.group],
                err |-> "none", msg |-> "", pre |-> NoPre]
    /\ writes' = <<>>
    /\ UNCHANGED <<diskC, diskG, index, memG, rec>>
    /\ UNCHANGED engVars

\* Process p ends after its command.
PExit(p) ==
    /\ procs[p].pc = "idle"
    /\ procs' = [procs EXCEPT ![p] = [NoProc EXCEPT !.pc = "stopped"]]
    /\ last' = [op |-> "exit", proc |-> p, arg |-> NoArg, err |-> "none",
                msg |-> "", pre |-> NoPre]
    /\ writes' = <<>>
    /\ UNCHANGED <<diskC, diskG, index, memG, rec>>
    /\ UNCHANGED engVars

NextProcs ==
    \/ \E p \in Procs : PConstruct(p)
    \/ \E p \in Procs : \E d \in ProcDefs(p) : PDefineLink(p, d)
    \/ \E p \in Procs : PDefineWrite(p)
    \/ \E p \in Procs : PCrash(p)
    \/ \E p \in Procs : PExit(p)

SpecProcs == InitLibrary /\ [][NextProcs]_vars

(***************************************************************************)
(* Properties of the registries.                                           *)
(***************************************************************************)
\* The validated options of the definition the last define was given.
LastOpts == validate_container_options(last.arg).opts
LastValid == validate_container_options(last.arg).err = "none"

\* C5: after define succeeds for a definition with name n and a registered
\* group g, n is in the index, n's record is persisted, n is exactly once in
\* g's members in memory and in the persisted store, and the group store was
\* written by this define only when n was not a member before it.
C5_DefineLinksGroup ==
    [][ (last'.op = "define" /\ last'.err = "none" /\ ~Falsy(LastOpts'.group))
        => LET n == LastOpts'.name
               g == LastOpts'.group
           IN  /\ g \in DOMAIN memG
               /\ n \in index'
               /\ n \in DOMAIN diskC'
               /\ diskC'[n].name = n /\ diskC'[n].group = g
               /\ Count(n, memG'[g].members) = 1
               /\ g \in DOMAIN diskG'
               /\ Count(n, diskG'[g].members) = 1
               /\ (InSeq(GroupsFile, writes') => ~InSeq(n, memG[g].members))
               /\ (~InSeq(GroupsFile, writes') => diskG' = diskG)
      ]_vars

\* A define has succeeded into a group that already had another member, and
\* saved the group store.
C5_Witness ==
    /\ last.op = "define" /\ last.err = "none" /\ ~Falsy(LastOpts.group)
    /\ Len(memG[LastOpts.group].members) >= 2
    /\ writes = <<GroupsFile, ContainerFile(LastOpts.name)>>

\* C6: define of a (valid) definition whose name is already in the index
\* fails with the already-defined DockerError and changes nothing: index,
\* persisted records, in-memory groups and persisted groups stay as they
\* were, and no file is written.
C6_RedefineChangesNothing ==
    [][ (last'.op = "define" /\ LastValid' /\ LastOpts'.name \in index)
        => /\ last'.err = "DockerError" /\ last'.msg = "defined"
           /\ UNCHANGED <<diskC, diskG, index, memG>>
           /\ writes' = <<>>
      ]_vars

\* A second define of a known name was refused although its definition names
\* a registered group that does not list the name.
C6_Witness ==
    /\ last.op = "define" /\ last.err = "DockerError"
    /\ LastOpts.name \in index
    /\ LastOpts.group \in DOMAIN memG
    /\ ~InSeq(LastOpts.name, memG[LastOpts.group].members)

\* C7: define of a (valid) definition whose group is not registered fails
\* before any write: nothing is persisted, the group store is not rewritten
\* and the index is unchanged; for a name that is not yet defined the error
\* is the ConfigError about the group.
C7_UnknownGroupNoWrite ==
    [][ (last'.op = "define" /\ LastValid' /\ ~Falsy(LastOpts'.group)
         /\ LastOpts'.group \notin DOMAIN memG)
        => /\ last'.err # "none"
           /\ (LastOpts'.name \notin index
                 => last'.err = "ConfigError" /\ last'.msg = "group")
           /\ writes' = <<>>
           /\ UNCHANGED <<diskC, diskG, index, memG>>
      ]_vars

\* A define of a new name failed on its unregistered group.
C7_Witness ==
    /\ last.op = "define" /\ last.err = "ConfigError" /\ last.msg = "group"
    /\ LastOpts.name \notin index
    /\ LastOpts.name \notin DOMAIN diskC
    /\ LastOpts.group \notin DOMAIN memG

\* C8 as claimed: in every reachable registry state each group's master,
\* when set, is one of that group's members.
C8_MasterIsMember ==
    \A g \in DOMAIN memG :
        memG[g].master # NoneV => InSeq(memG[g].master, memG[g].members)

\* C8 as the code has it: in every reachable registry state each group's
\* master, when set, is the name of a defined container, in memory and in
\* the persisted store; it need not be one of the group's members.
C8_MasterIsDefined ==
    /\ \A g \in DOMAIN memG :
           memG[g].master # NoneV => memG[g].master \in index
    /\ \A g \in DOMAIN diskG :
           diskG[g].master # NoneV => diskG[g].master \in DOMAIN diskC

\* A set-master has made a container that is not a member the master.
C8_Witness ==
    /\ last.op = "set_master" /\ last.err = "none"
    /\ diskG[last.arg.group].master = last.arg.name
    /\ ~InSeq(last.arg.name, memG[last.arg.group].members)

(***************************************************************************)
(* Properties of the group operations.                                     *)
(***************************************************************************)
\* A group operation op has resolved its handles and is running or over.
InGroupOp(op) ==
    /\ last.op = op
    /\ pc \in {"group", "done", "failed"}
    /\ last.msg = ""

OpGroup == memG[last.arg.group]

\* The members other than the master in members order, and the master.
Others == SelectSeqBy(OpGroup.members, Names \ {OpGroup.master})
MasterSeq == IF OpGroup.master = NoneV THEN <<>> ELSE <<OpGroup.master>>

StartOrder == MasterSeq \o Others
StopOrder == Others \o MasterSeq

\* The handle calls m on each name of order.
CallsOn(m, order) == [i \in 1..Len(order) |-> [m |-> m, name |-> order[i]]]

\* Stop and then remove on each name of order, one container after another.
StopRemoveOn(order) ==
    [j \in 1..(2 * Len(order)) |->
        [m |-> IF j % 2 = 1 THEN "stop" ELSE "remove",
         name |-> order[(j + 1) \div 2]]]

NamesOf(seq) == [i \in 1..Len(seq) |-> seq[i].name]

\* The engine calls of the kinds in kinds that returned, as [m, name].
EngineCalls(kinds) ==
    LET sel == SelectSeq(calls, LAMBDA c : c.call \in kinds /\ c.ok)
    IN  [i \in 1..Len(sel) |-> [m |-> sel[i].call, name |-> sel[i].name]]

\* C1: group start calls start on the master (when set) first and then once
\* on every member other than the master, in members order; the master is
\* not started again as a member.  While the operation runs the calls made
\* so far are a prefix of that order; when it is done they are all of it,
\* and the engine has seen one run or start per container in that order.
C1_GroupStartOrder ==
    InGroupOp("group_start")
    => /\ IsPrefix(trace, CallsOn("start", StartOrder))
       /\ pc = "done"
            => /\ trace = CallsOn("start", StartOrder)
               /\ NamesOf(EngineCalls({"run", "start"})) = StartOrder
               /\ \A n \in Range(OpGroup.members) \cup Range(MasterSeq) :
                      Count(n, NamesOf(trace)) = 1

\* A group start is done for a group of three whose master is a member but
\* not the first one listed.
C1_Witness ==
    /\ InGroupOp("group_start") /\ pc = "done"
    /\ Len(OpGroup.members) = 3
    /\ InSeq(OpGroup.master, OpGroup.members)
    /\ OpGroup.members[1] # OpGroup.master
    /\ Len(trace) = 3

\* C2: group stop calls stop on every member other than the master in
\* members order and on the master (when set) last.  With the remove flag
\* (the stop sequence of group update) every container, the master
\* included, is stopped and then removed before the next one is touched.
C2_GroupStopOrder ==
    /\ InGroupOp("group_stop")
       => /\ IsPrefix(trace, CallsOn("stop", StopOrder))
          /\ pc = "done"
               => /\ trace = CallsOn("stop", StopOrder)
                  /\ EngineCalls({"stop", "remove"}) = CallsOn("stop", StopOrder)
    /\ InGroupOp("group_update")
       => LET sr == SelectSeq(trace, LAMBDA e : e.m \in {"stop", "remove"})
          IN  /\ IsPrefix(sr, StopRemoveOn(StopOrder))
              /\ (pc = "done" \/ \E i \in 1..Len(trace) : trace[i].m = "start")
                   => /\ sr = StopRemoveOn(StopOrder)
                      /\ EngineCalls({"stop", "remove"}) = StopRemoveOn(StopOrder)

\* A group update is done for a master and two other members: the stop
\* sequence with remove has run over all three.
C2_Witness ==
    /\ InGroupOp("group_update") /\ pc = "done"
    /\ OpGroup.master # NoneV
    /\ Len(Others) = 2
    /\ Len(SelectSeq(trace, LAMBDA e : e.m = "remove")) = 3

\* A group stop (no remove) is done for a master and two other members.
C2_WitnessStop ==
    /\ InGroupOp("group_stop") /\ pc = "done"
    /\ OpGroup.master # NoneV
    /\ Len(Others) = 2

\* The handle calls of a whole group update.
UpdateOrder ==
    CallsOn("pull", StartOrder) \o StopRemoveOn(StopOrder)
    \o CallsOn("start", StartOrder)

\* C3: group update runs in three phases: the pulls (master, then members
\* in order), then stop and remove of every container (members in order,
\* master last), then the start sequence (master first).  At the engine no
\* stop or remove comes after a run or start, and every stop and remove has
\* returned before the first run or start is issued.
C3_UpdatePhases ==
    InGroupOp("group_update")
    => /\ IsPrefix(trace, UpdateOrder)
       /\ pc = "done" => trace = UpdateOrder
       /\ \A i, j \in 1..Len(calls) :
             (calls[i].call \in {"run", "start"} /\ i < j)
               => calls[j].call \notin {"stop", "remove"}
       /\ \A i, j \in 1..Len(trace) :
             (trace[i].m \in {"stop", "remove", "start"} /\ i < j)
               => trace[j].m # "pull"
       /\ (\E i \in 1..Len(calls) : calls[i].call \in {"run", "start"})
            => EngineCalls({"stop", "remove"}) = StopRemoveOn(StopOrder)

\* A group update is done for a master and two other members.
C3_Witness ==
    /\ InGroupOp("group_update") /\ pc = "done"
    /\ OpGroup.master # NoneV
    /\ Len(Others) = 2
    /\ Len(trace) = 12

\* The handle calls of the running operation that have returned.
Completed ==
    IF pc = "failed" THEN SubSeq(trace, 1, Len(trace) - 1) ELSE trace

\* The state a handle call leaves the container in.
StateAfter(m) ==
    CASE m = "start"  -> "running"
      [] m = "stop"   -> "stopped"
      [] m = "remove" -> "absent"

\* C4: when a call fails during a group start, stop or update, the sequence
\* halts there: a failed engine call is the last engine call, the failed
\* handle call is the last handle call, every container already processed
\* is in the state its last completed call gave it (nothing is rolled
\* back), and no engine call names a container that is not yet processed.
C4_HaltOnFailure ==
    (InGroupOp("group_start") \/ InGroupOp("group_stop")
     \/ InGroupOp("group_update"))
    => /\ \A i \in 1..Len(calls) :
             ~calls[i].ok => /\ i = Len(calls)
                             /\ pc = "failed"
                             /\ last.err = "EngineError"
       /\ pc = "failed" <=> last.err # "none"
       /\ pc = "failed" => Len(trace) = ip /\ trace[ip].m = plan[ip].m
       /\ pc # "failed" => Len(trace) = ip - 1
       /\ \A i \in 1..Len(calls) : InSeq(calls[i].name, NamesOf(trace))
       /\ \A n \in Names :
             LET done == SelectSeq(Completed,
                                   LAMBDA e : e.name = n /\ e.m # "pull")
             IN  done # <<>> => engine.inst[n] = StateAfter(done[Len(done)].m)

\* A group update failed on an engine call in its start sequence, after the
\* master was started again and before the last member was.
C4_Witness ==
    /\ InGroupOp("group_update") /\ pc = "failed"
    /\ last.err = "EngineError"
    /\ Len(trace) < Len(plan)
    /\ \E i \in 1..Len(Completed) : Completed[i].m = "start"
    /\ \E n \in Range(OpGroup.members) : ~InSeq([m |-> "start", name |-> n], trace)

(***************************************************************************)
(* Properties of the handle.                                               *)
(***************************************************************************)
Kinds(cs) == [i \in 1..Len(cs) |-> cs[i].call]

\* The engine calls of the last operation that returned.
EngineOk == SelectSeq(calls, LAMBDA c : c.ok)

\* The engine calls of a start that succeeds, from what it found.
StartCalls(pre) ==
    IF pre.bound THEN <<"start">>
    ELSE IF pre.inst # "absent" THEN <<"get", "start">>
    ELSE IF pre.img THEN <<"get", "img_get", "run">>
    ELSE <<"get", "img_get", "pull", "run">>

\* C9: start() looks the instance up by name only when none is memoized; if
\* the engine has none it issues exactly one run, after a pull only when the
\* image is not present; if there is one it issues exactly one start and no
\* run; in both cases the handle is bound afterwards.  A failing engine call
\* ends the start at that call.
C9_StartResolvesThenRunsOrStarts ==
    (pc = "handle" /\ last.op = "start")
    => /\ IsPrefix(Kinds(calls), StartCalls(last.pre))
       /\ last.err = "none"
            => /\ Kinds(calls) = StartCalls(last.pre)
               /\ \A i \in 1..Len(calls) : calls[i].ok
               /\ hs[1].bound
               /\ engine.inst[hs[1].name] = "running"
       /\ last.err # "none"
            => /\ last.err = "EngineError"
               /\ calls # <<>> /\ ~calls[Len(calls)].ok
               /\ hs[1].bound = (\/ last.pre.bound
                                 \/ last.pre.inst # "absent" /\ Len(calls) > 1)
               /\ engine.inst[hs[1].name] = last.pre.inst

\* A start found no memoized instance, none in the engine and no image: it
\* pulled and ran.
C9_Witness ==
    /\ pc = "handle" /\ last.op = "start" /\ last.err = "none"
    /\ ~last.pre.bound /\ last.pre.inst = "absent" /\ ~last.pre.img
    /\ Kinds(calls) = <<"get", "img_get", "pull", "run">>

\* A start found the image present and no instance: run without a pull.
C9_WitnessNoPull ==
    /\ pc = "handle" /\ last.op = "start" /\ last.err = "none"
    /\ ~last.pre.bound /\ last.pre.inst = "absent" /\ last.pre.img

\* A start found an instance: start without a run.
C9_WitnessStart ==
    /\ pc = "handle" /\ last.op = "start" /\ last.err = "none"
    /\ ~last.pre.bound /\ last.pre.inst = "stopped"

\* C10: run() on a bound handle fails with DockerError, issues no engine
\* call and leaves the handle bound and the engine as it was; start() never
\* fails with that DockerError.
C10_RunGuard ==
    pc = "handle"
    => /\ (last.op = "run" /\ last.pre.bound)
            => /\ last.err = "DockerError"
               /\ calls = <<>>
               /\ hs[1].bound
               /\ engine.inst[hs[1].name] = last.pre.inst
               /\ (hs[1].image \in engine.images) = last.pre.img
       /\ last.op = "start" => last.err # "DockerError"
       /\ last.err = "DockerError" => (last.op = "run" /\ last.pre.bound)

\* A run on a bound handle was refused.
C10_Witness ==
    /\ pc = "handle" /\ last.op = "run" /\ last.pre.bound
    /\ last.err = "DockerError"
    /\ last.pre.inst = "running"

\* The engine calls of a rebuild that succeeds on a live instance, from
\* what it found.
RebuildCalls(pre) ==
    (IF pre.bound THEN <<>> ELSE <<"get">>)
    \o <<"stop", "remove", "get", "img_get">>
    \o (IF pre.img THEN <<>> ELSE <<"pull">>)
    \o <<"run">>

\* The calls among cs that act on the instance.
Lifecycle(cs) ==
    SelectSeq(Kinds(cs), LAMBDA k : k \in {"stop", "remove", "run", "start"})

\* C11: a remove that succeeds leaves the handle with no memoized instance;
\* rebuild() on a container with a live instance issues stop, remove, run in
\* that order and never a start: after the remove the handle looks the
\* instance up again, finds none and runs a new one, and when the rebuild
\* succeeds the handle is bound and the new instance is running.
C11_RebuildStopRemoveRun ==
    pc = "handle"
    => /\ (last.op = "remove" /\ last.err = "none")
            => /\ ~hs[1].bound
               /\ engine.inst[hs[1].name] = "absent"
       /\ (last.op = "rebuild" /\ last.pre.inst # "absent")
            => /\ IsPrefix(Lifecycle(calls), <<"stop", "remove", "run">>)
               /\ IsPrefix(Kinds(calls), RebuildCalls(last.pre))
               /\ last.err = "none"
                    => /\ Kinds(calls) = RebuildCalls(last.pre)
                       /\ \A i \in 1..Len(calls) : calls[i].ok
                       /\ hs[1].bound
                       /\ engine.inst[hs[1].name] = "running"
               /\ (last.err # "none" /\ InSeq("remove", Kinds(EngineOk)))
                    => ~hs[1].bound /\ engine.inst[hs[1].name] = "absent"

\* A rebuild of a running container, on a handle that had it memoized,
\* succeeded.
C11_Witness ==
    /\ pc = "handle" /\ last.op = "rebuild" /\ last.err = "none"
    /\ last.pre.bound /\ last.pre.inst = "running"
    /\ Lifecycle(calls) = <<"stop", "remove", "run">>
    /\ hs[1].bound

\* C12: update() issues the image's pull and no other engine call (no get,
\* stop, start, remove or run), leaves the handle bound or unbound as it
\* was, leaves its options and the persisted records unchanged, and the
\* engine's instances as they were.
C12_UpdateOnlyPulls ==
    [][ (pc = "handle" /\ pc' = "handle" /\ last'.op = "update")
        => /\ Kinds(calls') = <<"pull">>
           /\ hs'[1].bound = hs[1].bound
           /\ hs'[1].info = hs[1].info
           /\ hs'[1].name = hs[1].name
           /\ engine'.inst = engine.inst
           /\ UNCHANGED <<diskC, diskG, index, memG>>
      ]_vars

\* An update on a handle bound to a running instance pulled the image.
C12_Witness ==
    /\ pc = "handle" /\ last.op = "update" /\ last.err = "none"
    /\ last.pre.bound /\ last.pre.inst = "running"
    /\ hs[1].bound
    /\ Kinds(calls) = <<"pull">>

(***************************************************************************)
(* Properties of validation and of the definition files.                   *)
(***************************************************************************)
\* A get of a defined container has been asked for.
GotDefined ==
    /\ last.op = "get"
    /\ last.arg.name \in index

\* C13 as claimed: the record get reads back from the file define wrote
\* equals, field for field, the record define validated.
C13_RoundTripEqual ==
    (GotDefined /\ last.err = "none" /\ rec # <<>>) => hs[1].info = rec[1]

\* C13 as the code has it: get succeeds on every file define or tag wrote;
\* the record read back equals the validated one field for field except
\* that a string field the definition left out, which validate left as the
\* empty string, reads back as None; no string field of a record read back
\* is the empty string, and writing the record read back gives the file it
\* was read from, so that further round trips change nothing.
C13_RoundTripNormalized ==
    GotDefined
    => /\ last.err = "none"
       /\ pc = "handle"
       /\ rec # <<>>
            => \A k \in DOMAIN ContainerOptsDefault :
                  hs[1].info[k] = IF DeclaredType(k) = "str" /\ rec[1][k] = ""
                                    THEN NoneV ELSE rec[1][k]
       /\ \A k \in DOMAIN ContainerOptsDefault :
             DeclaredType(k) = "str" => hs[1].info[k] # ""
       /\ save_container_file(hs[1].info) = diskC[last.arg.name]
       /\ DOMAIN diskC[last.arg.name] = DOMAIN ContainerOptsDefault

\* A definition that gives a tag and a group, leaves a string field empty
\* and leaves others out was defined and read back in the same process.
C13_Witness ==
    /\ GotDefined /\ last.err = "none" /\ rec # <<>>
    /\ rec[1].tag = "v1" /\ hs[1].info.tag = "v1"
    /\ rec[1].group = GroupList[1]
    /\ rec[1].net = "" /\ hs[1].info.net = NoneV

\* A record was read back from a file that tag had written again.
C13_WitnessRewritten ==
    /\ GotDefined /\ last.err = "none" /\ rec = <<>>
    /\ hs[1].info.tag = "v2"
    /\ hs[1].info.group = NoneV

\* The last operation was validate and returned its record.
Validated == last.op = "validate" /\ last.err = "none"

\* The raw mapping does not have the key, or has the empty string for it.
LeftUnset(d, k) ==
    \/ k \notin DOMAIN d
    \/ DeclaredType(k) = "str" /\ d[k] = ""

\* C14 as claimed: in a record validate returns, image and name are there
\* and not empty, and every other field the input left out or gave as an
\* empty string holds its default, never None.
C14_UnsetFieldsHoldDefaults ==
    Validated
    => /\ rec[1].image \notin {"", NoneV}
       /\ rec[1].name \notin {"", NoneV}
       /\ \A k \in DOMAIN ContainerOptsDefault \ {"image", "name"} :
             LeftUnset(last.arg, k) => rec[1][k] = ContainerOptsDefault[k]

\* C14 as the code has it: image and name are there and not empty; a field
\* the input left out holds its default (an empty list, the empty string,
\* false); a string field the input gave as the empty string holds None;
\* every other field holds the value given.
C14_AbsentDefaultEmptyNone ==
    Validated
    => /\ rec[1].image \notin {"", NoneV}
       /\ rec[1].name \notin {"", NoneV}
       /\ \A k \in DOMAIN ContainerOptsDefault :
             rec[1][k] = IF k \notin DOMAIN last.arg THEN ContainerOptsDefault[k]
                         ELSE IF LeftUnset(last.arg, k) THEN NoneV
                         ELSE last.arg[k]

\* validate returned a record for a mapping that gives an empty tag and
\* leaves the mounts and the insecure flag out.
C14_Witness ==
    /\ Validated
    /\ "tag" \in DOMAIN last.arg /\ last.arg.tag = "" /\ rec[1].tag = NoneV
    /\ "mounts" \notin DOMAIN last.arg /\ rec[1].mounts = <<>>
    /\ "image_insecure" \notin DOMAIN last.arg /\ rec[1].image_insecure = FALSE
    /\ "group" \notin DOMAIN last.arg /\ rec[1].group = ""

\* Every value the mapping gives has the type its field declares.
TypesOk(d) ==
    \A k \in DOMAIN d :
        CASE DeclaredType(k) = "str" -> d[k] \notin {NoneV, IntV}
          [] DeclaredType(k) = "list" ->
                 d[k] # StrForList /\ \A i \in 1..Len(d[k]) : d[k][i] # IntElem
          [] OTHER -> TRUE

\* C15: on a mapping whose values have the declared types, validate fails
\* with a ConfigError that names image or name, a field the mapping leaves
\* out or empty, exactly when one of the two is left out or empty, and then
\* returns no record (image is the one named when both are); otherwise it
\* returns a record whose image and name are the values given.  A value of
\* a wrong type fails validation with a ConfigError about that field.
C15_RequiredFields ==
    last.op = "validate"
    => LET d == last.arg
       IN  /\ (TypesOk(d) /\ (LeftUnset(d, "image") \/ LeftUnset(d, "name")))
                => /\ last.err = "ConfigError"
                   /\ last.msg \in {"image", "name"}
                   /\ last.key = last.msg
                   /\ LeftUnset(d, last.msg)
                   /\ LeftUnset(d, "image") => last.msg = "image"
                   /\ rec = <<>>
           /\ (TypesOk(d) /\ ~LeftUnset(d, "image") /\ ~LeftUnset(d, "name"))
                => /\ last.err = "none"
                   /\ rec # <<>>
                   /\ rec[1].image = d.image
                   /\ rec[1].name = d.name
           /\ ~TypesOk(d)
                => /\ last.err = "ConfigError"
                   /\ last.msg \in {"type", "list"}
                   /\ last.key \in DOMAIN d
                   /\ rec = <<>>

\* validate refused a well-typed mapping that has an image and an empty name.
C15_Witness ==
    /\ last.op = "validate" /\ last.err = "ConfigError" /\ last.msg = "name"
    /\ TypesOk(last.arg)
    /\ "image" \in DOMAIN last.arg /\ last.arg.image = ImageName
    /\ "name" \in DOMAIN last.arg /\ last.arg.name = ""
    /\ "mounts" \in DOMAIN last.arg

\* validate accepted a mapping that has both and gives other fields too.
C15_WitnessAccepted ==
    /\ Validated
    /\ rec[1].name = OptName /\ rec[1].image = ImageName
    /\ rec[1].mounts # <<>>

(***************************************************************************)
(* Properties of the engine run parameters.                                *)
(***************************************************************************)
\* A run on a handle that had no instance memoized has ended.
RanUnbound == pc = "handle" /\ last.op = "run" /\ ~last.pre.bound

\* The run call the last operation issued, if any.
RunCalls == SelectSeq(calls, LAMBDA c : c.call = "run")

\* The places of the colons in a mount entry, in order.
ColonsAt(e) == {i \in 1..Len(e) : e[i] = Colon}
FirstColon(e) == CHOOSE i \in ColonsAt(e) : \A j \in ColonsAt(e) : i <= j
LastColon(e) == CHOOSE i \in ColonsAt(e) : \A j \in ColonsAt(e) : j <= i

\* The bind of host path src at container path tgt.
Bind(src, tgt, ro) ==
    [target |-> tgt, source |-> src, type |-> "bind", read_only |-> ro]

\* The run was given the one mount b and was not refused for its options.
RunWithMount(b) ==
    /\ last.err # "ConfigError"
    /\ \A i \in 1..Len(RunCalls) :
          /\ "mounts" \in DOMAIN RunCalls[i].args
          /\ RunCalls[i].args.mounts = <<b>>
    /\ last.err = "none" => Len(RunCalls) = 1

\* The run was refused with the ConfigError before the engine was asked to
\* run anything (unless an engine call failed before the options were read).
RunRefused ==
    /\ last.err \in {"ConfigError", "EngineError"}
    /\ RunCalls = <<>>
    /\ (\A i \in 1..Len(calls) : calls[i].ok) => last.err = "ConfigError"
    /\ ~hs[1].bound

\* The mount entry of the handle, for handles with exactly one.
Entry == hs[1].info.mounts[1]

\* C16 as claimed: 'h:c' binds h at c read-write, 'h:c:ro' read-only; an
\* entry with two colons whose third segment is neither ro nor rw, and an
\* entry with more than two colons, is refused with the malformed-path
\* ConfigError.
C16_MountsStrictMode ==
    (RanUnbound /\ Len(hs[1].info.mounts) = 1)
    => LET e == Entry
           i == FirstColon(e)
           j == LastColon(e)
           n == Cardinality(ColonsAt(e))
       IN  /\ n = 1 => RunWithMount(Bind(SubSeq(e, 1, i - 1),
                                         SubSeq(e, i + 1, Len(e)), FALSE))
           /\ (n = 2 /\ SubSeq(e, j + 1, Len(e)) \in {<<"ro">>, <<"rw">>})
                => RunWithMount(Bind(SubSeq(e, 1, i - 1), SubSeq(e, i + 1, j - 1),
                                     SubSeq(e, j + 1, Len(e)) = <<"ro">>))
           /\ (n = 2 /\ SubSeq(e, j + 1, Len(e)) \notin {<<"ro">>, <<"rw">>})
                => RunRefused
           /\ n > 2 => RunRefused

\* C16 as the code has it: 'h:c' binds h at c read-write; 'h:c:mode' binds
\* h at c read-only when the mode is ro and read-write for any other third
\* segment, rw or not; an entry with no colon or with more than two colons
\* is refused with the malformed-path ConfigError.
C16_MountsByColons ==
    (RanUnbound /\ Len(hs[1].info.mounts) = 1)
    => LET e == Entry
           i == FirstColon(e)
           j == LastColon(e)
           n == Cardinality(ColonsAt(e))
       IN  /\ n = 1 => RunWithMount(Bind(SubSeq(e, 1, i - 1),
                                         SubSeq(e, i + 1, Len(e)), FALSE))
           /\ n = 2 => RunWithMount(Bind(SubSeq(e, 1, i - 1),
                                         SubSeq(e, i + 1, j - 1),
                                         SubSeq(e, j + 1, Len(e)) = <<"ro">>))
           /\ n \notin {1, 2} => RunRefused

\* A container with the mount '/a:/a:ro' was run with a read-only bind.
C16_Witness ==
    /\ RanUnbound /\ last.err = "none"
    /\ hs[1].info.mounts = <<<<"/a", Colon, "/a", Colon, "ro">>>>
    /\ RunCalls[1].args.mounts = <<Bind(<<"/a">>, <<"/a">>, TRUE)>>

\* A container with the mount '/a:/a:/a' was run with a read-write bind.
C16_WitnessBadMode ==
    /\ RanUnbound /\ last.err = "none"
    /\ hs[1].info.mounts = <<<<"/a", Colon, "/a", Colon, "/a">>>>
    /\ RunCalls[1].args.mounts = <<Bind(<<"/a">>, <<"/a">>, FALSE)>>

\* A run was refused for a mount with three colons.
C16_WitnessRefused ==
    /\ RanUnbound /\ last.err = "ConfigError"
    /\ Len(hs[1].info.mounts) = 1
    /\ Cardinality(ColonsAt(Entry)) = 3

\* Some entry of the mounts ms has no colon or more than two.
Malformed(ms) ==
    \E i \in 1..Len(ms) : Cardinality(ColonsAt(ms[i])) \notin {1, 2}

\* The definition d gives mounts, all of them strings, one of them malformed.
MalformedDef(d) ==
    /\ "mounts" \in DOMAIN d
    /\ TypesOk(d)
    /\ Malformed(d.mounts)

\* The definition d has what define asks of a new container: the types, an
\* image, a name that is not defined, and no group or a registered one.
Definable(d) ==
    /\ TypesOk(d)
    /\ ~LeftUnset(d, "image") /\ ~LeftUnset(d, "name")
    /\ d.name \notin index
    /\ LeftUnset(d, "group") \/ d.group \in DOMAIN memG

\* C17 as claimed: define of a definition with a malformed mount entry
\* fails, persists no record and registers nothing.
C17_MalformedMountNotDefined ==
    (last.op = "define" /\ MalformedDef(last.arg))
    => /\ last.err = "ConfigError"
       /\ writes = <<>>
       /\ last.arg.name \notin index
       /\ last.arg.name \notin DOMAIN diskC

\* C17 as the code has it: validate and define look at the types of the
\* mounts only: a definition with a malformed entry is defined like any
\* other (record persisted with the entry as given, name in the index),
\* and get returns a handle on it; the malformed-path ConfigError comes
\* from run(), before the engine is asked to run the container, which stays
\* without instance.
C17_MalformedMountRefusedAtRun ==
    [][ /\ (last'.op = "define" /\ MalformedDef(last'.arg) /\ Definable(last'.arg))
             => /\ last'.err = "none"
                /\ last'.arg.name \in index'
                /\ last'.arg.name \in DOMAIN diskC'
                /\ diskC'[last'.arg.name].mounts = last'.arg.mounts
                /\ InSeq(ContainerFile(last'.arg.name), writes')
        /\ (GotDefined' /\ Malformed(diskC'[last'.arg.name].mounts))
             => /\ last'.err = "none"
                /\ hs'[1].info.mounts = diskC'[last'.arg.name].mounts
        /\ (RanUnbound' /\ Malformed(hs'[1].info.mounts))
             => /\ RunRefused'
                /\ engine'.inst = engine.inst
      ]_vars

\* A container defined with a mount without colon was refused by run with
\* the ConfigError, after the image lookup.
C17_Witness ==
    /\ RanUnbound /\ last.err = "ConfigError"
    /\ hs[1].file_p
    /\ hs[1].name \in index
    /\ diskC[hs[1].name].mounts = <<MountRW, MountNoColon>>
    /\ calls # <<>> /\ calls[Len(calls)].ok

\* Truthiness of a field of a record.
IsSet(r, k) == ~Falsy(r[k])

\* C18 as claimed: no record validate accepted, and so no defined container,
\* has both network and net set.
C18_NetworkXorNet ==
    /\ rec # <<>> => ~(IsSet(rec[1], "network") /\ IsSet(rec[1], "net"))
    /\ \A n \in DOMAIN diskC :
          ~(IsSet(diskC[n], "network") /\ IsSet(diskC[n], "net"))

\* C18 as the code has it: a definition that sets both network and net is
\* validated and defined like any other; the two exclude each other only in
\* the run parameters: with network set the engine is given that network
\* and no network mode, net being ignored; with only net set it is given
\* the network mode (host, or the container named) and no network; with
\* neither it is given neither.
C18_NetworkBeforeNet ==
    [][ /\ (last'.op = "define" /\ Definable(last'.arg)
            /\ ~LeftUnset(last'.arg, "network") /\ ~LeftUnset(last'.arg, "net"))
             => /\ last'.err = "none"
                /\ IsSet(diskC'[last'.arg.name], "network")
                /\ IsSet(diskC'[last'.arg.name], "net")
                /\ rec' # <<>>
                /\ IsSet(rec'[1], "network") /\ IsSet(rec'[1], "net")
        /\ RanUnbound'
             => \A i \in 1..Len(RunCalls') :
                   LET args == RunCalls'[i].args
                       info == hs'[1].info
                   IN  /\ ~({"network", "network_mode"} \subseteq DOMAIN args)
                       /\ "network" \in DOMAIN args <=> IsSet(info, "network")
                       /\ "network" \in DOMAIN args
                            => args.network = info.network
                       /\ "network_mode" \in DOMAIN args
                            <=> (IsSet(info, "net") /\ ~IsSet(info, "network"))
                       /\ "network_mode" \in DOMAIN args
                            => args.network_mode =
                                  IF info.net = "host"
                                    THEN <<"host">>
                                    ELSE <<"container:", info.net>>
      ]_vars

\* A container defined with both network and net set was run on the
\* network, with no network mode.
C18_Witness ==
    /\ RanUnbound /\ last.err = "none"
    /\ hs[1].file_p
    /\ IsSet(diskC[hs[1].name], "network") /\ IsSet(diskC[hs[1].name], "net")
    /\ DOMAIN RunCalls[1].args = {"name", "network"}

\* A container defined with net only was run in that container's namespace.
C18_WitnessNet ==
    /\ RanUnbound /\ last.err = "none"
    /\ hs[1].info.net = "c1"
    /\ RunCalls[1].args.network_mode = <<"container:", "c1">>

C19_WitnessNew ==
    /\ last.op = "group_add"
    /\ writes = <<GroupsFile>>
    /\ memG[last.arg.group] = EmptyGroup
    /\ diskG = memG

(***************************************************************************)
(* Properties of tag and dump.                                             *)
(***************************************************************************)
\* The fields of a record other than the tag.
OtherKeys(r) == DOMAIN r \ {"tag"}

\* C20: a tag(t) that returns leaves t in the options' tag and every other
\* option as it was; on a handle with a definition file the file is
\* rewritten with tag t and every other persisted field as before, on a
\* handle without one no file is touched; a tag(t) that raises changes
\* neither; and the dump() that follows a tag(t) writes <name>.yaml with
\* the options as they are: its tag field is t, and for a non-empty t
\* validation of the written file gives tag t again.
C20_TagThenDump ==
    [][ /\ (last'.op = "tag" /\ last'.err = "none")
             => LET t == last'.tag
                    n == hs[1].name
                IN  /\ hs'[1].info.tag = t
                    /\ \A k \in OtherKeys(hs[1].info) :
                          hs'[1].info[k] = hs[1].info[k]
                    /\ hs[1].file_p
                         => /\ DOMAIN diskC' = DOMAIN diskC
                            /\ diskC'[n].tag = t
                            /\ \A k \in OtherKeys(diskC[n]) :
                                  diskC'[n][k] = diskC[n][k]
                            /\ \A m \in DOMAIN diskC \ {n} : diskC'[m] = diskC[m]
                            /\ writes' = <<ContainerFile(n)>>
                    /\ ~hs[1].file_p
                         => /\ diskC' = diskC
                            /\ writes' = <<>>
        /\ (last'.op = "tag" /\ last'.err # "none")
             => /\ hs'[1].info = hs[1].info
                /\ diskC' = diskC
                /\ writes' = <<>>
        /\ (last.op = "tag" /\ last.err = "none" /\ last'.op = "dump")
             => /\ Len(writes') = 1
                /\ writes'[1].file = "dump"
                /\ writes'[1].name = hs[1].name
                /\ writes'[1].data.tag = last.tag
                /\ \A k \in OtherKeys(hs[1].info) :
                      writes'[1].data[k] = hs[1].info[k]
                /\ last.tag # ""
                     => validate_container_options(writes'[1].data).opts.tag
                          = last.tag
                /\ diskC' = diskC
      ]_vars

\* A handle on a defined container was tagged v2 and dumped: the options,
\* the definition file and the dumped file all read v2, and the definition
\* file still names the group it was defined with.
C20_Witness ==
    /\ last.op = "dump"
    /\ hs[1].file_p
    /\ hs[1].info.tag = "v2"
    /\ writes[1].data.tag = "v2"
    /\ diskC[hs[1].name].tag = "v2"
    /\ diskC[hs[1].name].group = GroupList[1]

\* A handle without definition file was tagged: its options read the new
\* tag and the definition file of the same name keeps another.
C20_WitnessNoFile ==
    /\ last.op = "tag" /\ last.err = "none" /\ last.tag = "v2"
    /\ ~hs[1].file_p
    /\ hs[1].info.tag = "v2"
    /\ hs[1].name \in DOMAIN diskC
    /\ diskC[hs[1].name].tag # "v2"

CliOps == {"set_master", "group_start", "group_stop", "group_update",
           "group_restart"}

\* C22: no command ends with a DockerError or a ConfigError leaving the
\* command line's function: each is caught there and turned into an exit
\* with a non-zero status.
C22_CliCatchesDomainErrors ==
    last.op \in CliOps => last.err \notin {"DockerError", "ConfigError"}

(***************************************************************************)
(* Properties of the group orchestration: the place of the master.         *)
(***************************************************************************)
\* A group operation of the kinds in ops is under way or over, for a group
\* with a master and at least one other member.
MasterAndOthers(ops) ==
    /\ \E op \in ops : InGroupOp(op)
    /\ OpGroup.master # NoneV
    /\ Others # <<>>

\* The positions in trace of the calls of method m.
CallsAt(m) == {i \in 1..Len(trace) : trace[i].m = m}

\* C23 as claimed: in a finished group start the master is the last one
\* started, in a finished group stop it is the first one stopped.
C23_MasterStartedLastStoppedFirst ==
    /\ (MasterAndOthers({"group_start"}) /\ pc = "done")
         => trace[Len(trace)].name = OpGroup.master
    /\ (MasterAndOthers({"group_stop"}) /\ pc = "done")
         => trace[1].name = OpGroup.master

\* C23 as the code has it: the master is started first and stopped last.
\* In group start and in the start sequence of group update no other
\* member is started before the master; in group stop and in the stop
\* sequence of group update the master is stopped only after every other
\* member has been stopped; a finished operation has started (stopped) the
\* master.
C23_MasterStartedFirstStoppedLast ==
    /\ MasterAndOthers({"group_start", "group_update"})
         => /\ \A i \in CallsAt("start") :
                  trace[i].name # OpGroup.master
                    => \E j \in CallsAt("start") :
                          j < i /\ trace[j].name = OpGroup.master
            /\ pc = "done"
                 => \E j \in CallsAt("start") : trace[j].name = OpGroup.master
    /\ MasterAndOthers({"group_stop", "group_update"})
         => /\ \A j \in CallsAt("stop") :
                  trace[j].name = OpGroup.master
                    => \A k \in 1..Len(Others) :
                          \E i \in CallsAt("stop") :
                             i < j /\ trace[i].name = Others[k]
            /\ pc = "done"
                 => \E j \in CallsAt("stop") : trace[j].name = OpGroup.master

\* A group start is over for a group of three whose master is listed last
\* among the members: it was started first all the same.
C23_Witness ==
    /\ MasterAndOthers({"group_start"}) /\ pc = "done"
    /\ Len(OpGroup.members) = 3
    /\ OpGroup.members[3] = OpGroup.master
    /\ trace[1].name = OpGroup.master

\* A group stop is over for a group of three whose master is listed first:
\* it was stopped last.
C23_WitnessStop ==
    /\ MasterAndOthers({"group_stop"}) /\ pc = "done"
    /\ Len(OpGroup.members) = 3
    /\ OpGroup.members[1] = OpGroup.master
    /\ trace[3].name = OpGroup.master

(***************************************************************************)
(* Properties of two processes on the same files.                          *)
(***************************************************************************)
\* Process p takes the step between the stages from and to of define.
PStep(p, from, to) == procs[p].pc = from /\ procs'[p].pc = to

\* The name and the group of the definition process p is defining.
PName(p) == procs[p].opts.name
PGroup(p) == procs[p].opts.group

\* C24: the group save of a process writes the groups that process holds
\* in memory over the whole store, whatever the store held: the store
\* afterwards equals the saver's groups, its group is what the saver had
\* loaded plus its own new member, and another container that another
\* process saved as a member after the saver loaded is in the store no
\* more.
C24_LastWriterWins ==
    [][\A p \in Procs :
          (PStep(p, "idle", "linked") /\ writes' = <<GroupsFile>>)
            => LET g == PGroup(p)'
                   n == PName(p)'
               IN  /\ diskG' = procs'[p].memG
                   /\ diskG'[g].members = Append(procs[p].memG[g].members, n)
                   /\ \A k \in Range(diskG[g].members) \ {n} :
                         ~InSeq(k, procs[p].memG[g].members)
                           => ~InSeq(k, diskG'[g].members)
      ]_vars

\* Both processes loaded the empty group; the first defined a container
\* into it, and the second has now saved the group with its own container:
\* the first one's container has its record and is no member in the store.
C24_Witness ==
    /\ last.op = "define_link" /\ last.proc = 2 /\ writes = <<GroupsFile>>
    /\ \E n \in procs[1].wrote :
          /\ n \in DOMAIN diskC
          /\ diskC[n].group = GroupList[1]
          /\ ~InSeq(n, diskG[GroupList[1]].members)
          /\ InSeq(n, procs[1].memG[GroupList[1]].members)

\* C25 as claimed: a process stopped between the two writes of define
\* leaves the container's record on disk and the stored group without the
\* container.
C25_CrashLeavesRecordUnlinked ==
    last.op = "crash"
    => /\ last.arg.name \in DOMAIN diskC
       /\ ~InSeq(last.arg.name, diskG[last.arg.group].members)

\* C25 as the code has it: the group save comes first and the record write
\* second.  The first step of define writes no container record and saves
\* the groups, with the container as a member, exactly when the process
\* did not have it as one; the second step writes the record and leaves
\* the store alone; a process stopped between them leaves the files as the
\* first step left them: the group lists a container whose record this
\* define has not written.
C25_CrashLeavesMemberWithoutRecord ==
    [][\A p \in Procs :
          /\ PStep(p, "idle", "linked")
               => LET g == PGroup(p)'
                      n == PName(p)'
                  IN  /\ diskC' = diskC
                      /\ writes' = <<GroupsFile>>
                           <=> ~InSeq(n, procs[p].memG[g].members)
                      /\ writes' = <<GroupsFile>>
                           => InSeq(n, diskG'[g].members)
                      /\ writes' # <<GroupsFile>> => diskG' = diskG
          /\ PStep(p, "linked", "idle")
               => /\ diskG' = diskG
                  /\ PName(p) \in DOMAIN diskC'
                  /\ writes' = <<ContainerFile(PName(p))>>
          /\ PStep(p, "linked", "stopped")
               => /\ diskC' = diskC
                  /\ diskG' = diskG
      ]_vars

\* A process was stopped between the two writes: the stored group lists
\* the container and there is no record of it.
C25_Witness ==
    /\ last.op = "crash"
    /\ InSeq(last.arg.name, diskG[last.arg.group].members)
    /\ last.arg.name \notin DOMAIN diskC

\* C29: define raises the already-defined error exactly when the name is in
\* the index of the process that runs it, whether or not a record of that
\* name is on disk; and the record write replaces whatever record is there:
\* the persisted record is the one of the define that wrote last.
C29_UniquenessPerProcess ==
    [][\A p \in Procs :
          /\ (last'.op = "define_link" /\ last'.proc = p /\ procs[p].pc = "idle")
               => /\ last'.err = "DockerError" <=> last'.arg.name \in procs[p].index
                  /\ last'.err = "none" <=> last'.arg.name \notin procs[p].index
          /\ PStep(p, "linked", "idle")
               => /\ diskC'[PName(p)].name = PName(p)
                  /\ diskC'[PName(p)].tag = ProcTag[p]
                  /\ PName(p) \in procs'[p].index
                  /\ \A n \in DOMAIN diskC \ {PName(p)} :
                        n \in DOMAIN diskC' /\ diskC'[n] = diskC[n]
      ]_vars

\* Both processes have defined the same name without error; the second was
\* the later one and the record on disk is its own.
C29_Witness ==
    /\ last.op = "define_write" /\ last.proc = 2
    /\ last.arg.name \in procs[1].wrote
    /\ last.arg.name \in procs[2].wrote
    /\ diskC[last.arg.name].tag = ProcTag[2]

(***************************************************************************)
(* Properties of tag and the image.                                        *)
(***************************************************************************)
\* The engine calls of the last operation that name an image.
ImageCalls == SelectSeq(calls, LAMBDA c : c.call \in {"pull", "run"})

OnNoInstance(m) ==
    /\ pc = "handle" /\ last.op = m
    /\ ~last.pre.bound /\ last.pre.inst = "absent"

\* C26: stop(), remove(), restart() and rebuild() on a handle whose
\* container has no engine instance all fail: the only engine call is the
\* lookup by name; when it answers not-found the error is an
\* AttributeError, neither DockerError nor ConfigError (when the lookup
\* itself fails the engine's error propagates); no stop, remove, start or
\* run call is issued, the handle stays unbound and the engine has no
\* instance afterwards either.
C26_NoInstanceFails ==
    \A m \in {"stop", "remove", "restart", "rebuild"} :
       OnNoInstance(m)
       => /\ last.err \notin {"none", "DockerError", "ConfigError"}
          /\ Kinds(calls) = <<"get">>
          /\ calls[1].ok <=> last.err = "AttributeError"
          /\ ~calls[1].ok <=> last.err = "EngineError"
          /\ ~hs[1].bound
          /\ engine.inst[hs[1].name] = "absent"

\* A rebuild of a container that was never started failed on its stop,
\* after the lookup found nothing.
C26_Witness ==
    /\ OnNoInstance("rebuild")
    /\ last.err = "AttributeError"
    /\ calls = <<[call |-> "get", name |-> hs[1].name, ok |-> TRUE]>>

\* A stop of a container that was never started failed the same way.
C26_WitnessStop ==
    /\ OnNoInstance("stop")
    /\ last.err = "AttributeError"
    /\ Len(calls) = 1

(***************************************************************************)
(* Properties of group operations on names that are not defined.           *)
(***************************************************************************)
GroupOpNames == {"group_start", "group_stop", "group_update"}

\* The master of the group of the operation, or one of its members, is not
\* in the index.
HasUndefined ==
    \/ ~Falsy(OpGroup.master) /\ OpGroup.master \notin index
    \/ \E i \in 1..Len(OpGroup.members) : OpGroup.members[i] \notin index

\* C27: a group start, stop or update on a group whose master or one of
\* whose members is not a defined container ends with the DockerError of
\* containers.get before any handle method is called: no engine call is
\* issued, the engine is as it was, and the operation goes no further.
\* When every name is defined the handles are all resolved before the
\* first call.
C27_ResolveBeforeAnyCall ==
    [][ /\ (pc = "idle" /\ last'.op \in GroupOpNames
            /\ last'.arg.group \in DOMAIN memG')
             => /\ calls' = <<>> /\ trace' = <<>>
                /\ engine' = engine
                /\ HasUndefined'
                     => /\ last'.err = "DockerError"
                        /\ pc' = "failed"
                        /\ hs' = hs /\ mh' = mh
                /\ ~HasUndefined'
                     => /\ last'.err = "none"
                        /\ Len(hs') = Len(Others')
                        /\ \A i \in 1..Len(hs') : hs'[i].name = Others'[i]
                        /\ ~Falsy(OpGroup'.master)
                             => mh'.name = OpGroup'.master
        /\ (pc = "failed" /\ last.op \in GroupOpNames /\ last.err = "DockerError")
             => pc' = "idle"
      ]_vars

\* A group update on a group of three with a master, where one member
\* other than the master is not defined, failed without a call.
C27_Witness ==
    /\ last.op = "group_update" /\ pc = "failed" /\ last.err = "DockerError"
    /\ Len(OpGroup.members) = 3
    /\ ~Falsy(OpGroup.master) /\ OpGroup.master \in index
    /\ \E i \in 1..3 : OpGroup.members[i] \notin index
    /\ calls = <<>>

\* A group start failed because the master, which is no member, is not
\* defined.
C27_WitnessMaster ==
    /\ last.op = "group_start" /\ pc = "failed" /\ last.err = "DockerError"
    /\ ~Falsy(OpGroup.master) /\ OpGroup.master \notin index
    /\ ~InSeq(OpGroup.master, OpGroup.members)
    /\ OpGroup.members # <<>>

(***************************************************************************)
(* Properties of the members lists.                                        *)
(***************************************************************************)
\* C28: from a store without duplicates, whatever group adds, defines
\* (accepted or refused), set-masters and new registries follow in one
\* process, no group lists a container twice, in memory or in the store.
C28_NoDuplicateMembers ==
    /\ \A g \in DOMAIN memG : NoDup(memG[g].members)
    /\ \A g \in DOMAIN diskG : NoDup(diskG[g].members)

\* A container that its group already listed, its definition file having
\* been removed by hand, was defined again into the group: the group was
\* not saved and lists it once.
C28_Witness ==
    /\ last.op = "define" /\ last.err = "none"
    /\ ~Falsy(LastOpts.group)
    /\ writes = <<ContainerFile(LastOpts.name)>>
    /\ Count(LastOpts.name, memG[LastOpts.group].members) = 1
    /\ Count(LastOpts.name, diskG[LastOpts.group].members) = 1

====
